---- MODULE Spec2Model ----
(***************************************************************************)
(* Verification model of the 3DOM DOM-to-scene compiler.                   *)
(*                                                                         *)
(*   SpecGrouper : the Section Grouper (viewer/exhibits.js,                *)
(*                 identifyPageSections) applied to record lists.          *)
(*   SpecBudget  : the Size Budgeter (content.js, optimizeDOMData and the  *)
(*                 over-limit truncation of scanDOM) applied to the        *)
(*                 record lists left by image proxying.                    *)
(*   SpecScan    : the Feature Extractor (content.js, scanDOM with its     *)
(*                 traversal, image proxying and then-callback) on a page. *)
(*   SpecLOD     : the LOD Manager (viewer.js, updateLevelOfDetail with    *)
(*                 simplifyExhibit and restoreExhibit) on a fixed scene.   *)
(***************************************************************************)
EXTENDS Integers, Sequences, FiniteSets, TLC

VARIABLES
    elements,     \* Grouper input: the ElementRecord list, in document order
    sections,     \* Grouper output: the list returned by identifyPageSections
    grouped,      \* TRUE once identifyPageSections has returned
    records,      \* Budgeter input: domData.elements when proxyImages resolves
    payload,      \* Budgeter output: the elements of the domScanComplete data
    budgeted,     \* TRUE once scanDOM's then-callback has sent the message
    page,         \* the document: node -> what the content script reads of it
    windowDomData,\* window.domData: the scan whose domData object it points to
    domDatas,     \* per scan: domData.elements of its object, as object refs
    objects,      \* per scan: the element objects its traversal created
    pending,      \* fetchImageAsDataUrl promises not settled yet
    scanState,    \* per scan: "proxying", "sent" or "aborted"
    messages,     \* domScanComplete messages sent so far: the scan whose
                  \* callback sent it, the scan whose domData object it took
                  \* from window.domData, and the elements it carries
    extracted,    \* per scan: the nodes whose records traverseNode pushed
    failed,       \* the fetches that were rejected or gave no result
    camera,       \* camera.position
    domElements,  \* the exhibits of the scene, with their userData
    lodCounter,   \* window.lodCounter
    lastEvalCamera, \* camera.position at the latest tier evaluation
    repeatedEval, \* the latest evaluation had the camera of the one before
    sinceEval,    \* updateLevelOfDetail calls since the latest evaluation
    argument,     \* the element or text a helper of the Extractor is called on
    returned,     \* what the helper returned for it
    isDragging,   \* city view: a mouse button is down on the canvas
    hasDragged,   \* city view: the gesture in progress has moved
    gesture,      \* the gesture in progress: whether the mouse moved in it
    clickPending, \* the click event the browser has still to deliver
    lastClick,    \* the latest click delivered and what its listener did
    focusedInput, \* city view: the object that has the input focus
    meshes,       \* the meshes of the city scene, with material and userData
    cityElements, \* core.js's domElements
    lastToggle,   \* the latest change event of a visibility checkbox
    currentDomData,      \* background: the stored scan data (the tab scanned)
    contentScriptActive, \* background: tabs known to run the content script
    viewerTabId,         \* background: the tracked viewer tab
    scanningTabId,       \* background: the tab being scanned
    icon,         \* per page tab: the toolbar icon shown
    openTabs,     \* the page tabs that are open
    viewers,      \* the viewer tabs created so far
    tasks,        \* callbacks, promises and messages still to run
    clicks        \* clicks on the extension icon so far

gvars == <<elements, sections, grouped>>
bvars == <<records, payload, budgeted>>
svars == <<page, windowDomData, domDatas, objects, pending, scanState,
           messages, extracted, failed>>
lvars == <<camera, domElements, lodCounter, lastEvalCamera, repeatedEval,
           sinceEval>>
hvars == <<argument, returned>>
vvars == <<isDragging, hasDragged, gesture, clickPending, lastClick,
           focusedInput, meshes, cityElements, lastToggle>>
kvars == <<currentDomData, contentScriptActive, viewerTabId, scanningTabId,
           icon, openTabs, viewers, tasks, clicks>>
vars  == <<elements, sections, grouped, records, payload, budgeted,
           page, windowDomData, domDatas, objects, pending, scanState,
           messages, extracted, failed,
           camera, domElements, lodCounter, lastEvalCamera, repeatedEval,
           sinceEval, argument, returned,
           isDragging, hasDragged, gesture, clickPending, lastClick,
           focusedInput, meshes, cityElements, lastToggle,
           currentDomData, contentScriptActive, viewerTabId, scanningTabId,
           icon, openTabs, viewers, tasks, clicks>>

(***************************************************************************)
(* Bounds of the Grouper inputs.                                           *)
(***************************************************************************)
MaxMixed == 3      \* leading records drawn from every record shape
MaxElems == 11     \* total records in one list

(***************************************************************************)
(* Record shapes handed to the Grouper.  `ref' is the identity of the      *)
(* JavaScript object (its position in the Extractor's output).             *)
(***************************************************************************)
NoSectionData == [isSectionContainer |-> FALSE, sectionType |-> ""]

Shape(tag, type, id, classes, sd, x, y, w, h) ==
    [tagName |-> tag, type |-> type, id |-> id, classes |-> classes,
     sectionData |-> sd,
     position |-> [x |-> x, y |-> y],
     dimensions |-> [width |-> w, height |-> h]]

\* <main id="main">: a flagged landmark covering the page
ShapeMain == Shape("MAIN", "container", "main", <<>>,
                   [isSectionContainer |-> TRUE, sectionType |-> "main"],
                   0, 0, 400, 400)
\* <section class="hero">: a flagged landmark nested inside ShapeMain
ShapeSection == Shape("SECTION", "container", "", <<"hero">>,
                   [isSectionContainer |-> TRUE, sectionType |-> "section"],
                   0, 0, 200, 200)
\* <div id="box">: unflagged, found only by the heuristic scan
ShapeDiv == Shape("DIV", "container", "box", <<>>, NoSectionData,
                   0, 0, 100, 100)
\* <div> with neither id nor class, found by the heuristic scan for its size
ShapeBigDiv == Shape("DIV", "container", "", <<>>, NoSectionData,
                   0, 0, 350, 350)
\* <span>: a tiny leaf inside every container above
ShapeSpan == Shape("SPAN", "text", "", <<>>, NoSectionData, 0, 0, 10, 10)
\* <p>: starts inside ShapeMain and extends beyond its right and bottom edge
ShapePara == Shape("P", "text", "", <<>>, NoSectionData, 300, 300, 200, 200)

AllShapes == {ShapeMain, ShapeSection, ShapeDiv, ShapeBigDiv, ShapeSpan, ShapePara}
FlaggedShapes == {ShapeMain, ShapeSection}

WithRef(shape, r) == [ref |-> r] @@ shape

\* a page of one <nav>, one <article> holding `blocks' paragraphs, and one
\* <div> without id or class below both; sectionData as extractSectionData
\* fills it in
MaxBlocks == 5      \* paragraphs inside the article
NavArticlePage(blocks) ==
    LET nav     == Shape("NAV", "navigation", "", <<>>,
                       [isSectionContainer |-> TRUE, sectionType |-> "nav"],
                       0, 0, 800, 50)
        article == Shape("ARTICLE", "container", "", <<>>,
                       [isSectionContainer |-> TRUE, sectionType |-> "article"],
                       0, 100, 600, 500)
        block(k) == Shape("P", "text", "", <<>>, NoSectionData,
                       10, 20 + 90 * k, 500, 80)
        div     == Shape("DIV", "container", "", <<>>, NoSectionData,
                       0, 700, 100, 100)
        shapes  == <<nav, article>> \o [k \in 1..blocks |-> block(k)]
                       \o <<div>>
    IN  [r \in 1..Len(shapes) |-> WithRef(shapes[r], r)]

(***************************************************************************)
(* identifyPageSections and its helpers.                                   *)
(***************************************************************************)
Area(e) == e.dimensions.width * e.dimensions.height

\* variant: only the top-left corner is tested
isVisuallyContained_cornerOnly(element, container) ==
    /\ element.position.x >= container.position.x
    /\ element.position.x <= container.position.x + container.dimensions.width
    /\ element.position.y >= container.position.y
    /\ element.position.y <= container.position.y + container.dimensions.height

isVisuallyContained(element, container) ==
    /\ element.position.x >= container.position.x
    /\ element.position.x + element.dimensions.width
           <= container.position.x + container.dimensions.width
    /\ element.position.y >= container.position.y
    /\ element.position.y + element.dimensions.height
           <= container.position.y + container.dimensions.height

\* the forEach body of the heuristic fallback: does it push the element?
IsHeuristicContainer(element) ==
    /\ ~(element.dimensions.width < 20 \/ element.dimensions.height < 20)
    /\ \/ element.type = "container"
       \/ element.type = "navigation"
       \/ element.tagName = "SECTION"
       \/ element.tagName = "ARTICLE"
       \/ element.tagName = "DIV"
    /\ \/ element.id # "" \/ Len(element.classes) > 0
       \/ element.dimensions.width > 300 /\ element.dimensions.height > 300

\* Array.prototype.sort is stable: insert x behind every entry that is not
\* strictly smaller in area.
RECURSIVE InsertByArea(_, _)
InsertByArea(x, sorted) ==
    IF sorted = <<>> THEN <<x>>
    ELSE IF Area(Head(sorted)) >= Area(x)
         THEN <<Head(sorted)>> \o InsertByArea(x, Tail(sorted))
         ELSE <<x>> \o sorted

RECURSIVE SortByAreaDesc(_)
SortByAreaDesc(s) ==
    IF s = <<>> THEN <<>>
    ELSE InsertByArea(s[Len(s)], SortByAreaDesc(SubSeq(s, 1, Len(s) - 1)))

ContainerCap == 10
MinMembers == 3

CollectContainers(elems) ==
    LET sectionContainers ==
            SelectSeq(elems, LAMBDA e : e.sectionData.isSectionContainer)
    IN  IF Len(sectionContainers) >= 2
        THEN sectionContainers
        ELSE SelectSeq(elems, IsHeuristicContainer)

\* variant: the list is cut to ContainerCap without sorting it by area
CapContainers_firstTen(mainContainers) ==
    IF Len(mainContainers) > ContainerCap
    THEN SubSeq(mainContainers, 1, ContainerCap)
    ELSE mainContainers

CapContainers(mainContainers) ==
    IF Len(mainContainers) > ContainerCap
    THEN SubSeq(SortByAreaDesc(mainContainers), 1, ContainerCap)
    ELSE mainContainers

\* the "Main Gallery" catch-all; section names are display text and are not
\* part of the model
Null == [ref |-> 0]
DefaultSection(elems) ==
    [element |-> Null, childElements |-> elems, type |-> "undefined"]

SectionType(container) ==
    IF container.sectionData.sectionType # "" THEN container.sectionData.sectionType
    ELSE IF container.type # "" THEN container.type
    ELSE "container"

SectionOf(container, elems) ==
    [element |-> container,
     childElements |-> SelectSeq(elems, LAMBDA e : isVisuallyContained(e, container)),
     type |-> SectionType(container)]

\* variant: the final "no valid sections" default is missing
identifyPageSections_noDefault(elems) ==
    LET mainContainers == CapContainers(CollectContainers(elems))
    IN  IF Len(mainContainers) < 2
        THEN <<DefaultSection(elems)>>
        ELSE LET all  == [i \in 1..Len(mainContainers) |->
                              SectionOf(mainContainers[i], elems)]
             IN  SelectSeq(all, LAMBDA s : Len(s.childElements) > MinMembers)

identifyPageSections(elems) ==
    LET mainContainers == CapContainers(CollectContainers(elems))
    IN  IF Len(mainContainers) < 2
        THEN <<DefaultSection(elems)>>
        ELSE LET all  == [i \in 1..Len(mainContainers) |->
                              SectionOf(mainContainers[i], elems)]
                 kept == SelectSeq(all, LAMBDA s : Len(s.childElements) > MinMembers)
             IN  IF Len(kept) = 0 THEN <<DefaultSection(elems)>> ELSE kept

(***************************************************************************)
(* Properties of the Section Grouper (checked under SpecGrouper).          *)
(***************************************************************************)
IsCatchAll(s) == s.element.ref = Null.ref
Refs(s) == {s.childElements[k].ref : k \in 1..Len(s.childElements)}
Left(e)   == e.position.x
Right(e)  == e.position.x + e.dimensions.width
Top(e)    == e.position.y
Bottom(e) == e.position.y + e.dimensions.height
\* positions, in the capped container list, of the containers that keep
\* more than MinMembers members
KeepingContainers ==
    LET mc == CapContainers(CollectContainers(elements))
    IN  {i \in 1..Len(mc) :
            Cardinality({k \in 1..Len(elements) :
                            /\ Left(elements[k]) >= Left(mc[i])
                            /\ Right(elements[k]) <= Right(mc[i])
                            /\ Top(elements[k]) >= Top(mc[i])
                            /\ Bottom(elements[k]) <= Bottom(mc[i])}) > MinMembers}

\* C1: for every record list, the empty one included, the Grouper returns at
\* least one section; when no section with a container is returned, the
\* result is a single catch-all holding every input record.
C1_NeverEmpty ==
    grouped =>
        /\ Len(sections) >= 1
        /\ (\A i \in 1..Len(sections) : IsCatchAll(sections[i]))
               => /\ Len(sections) = 1
                  /\ sections[1].childElements = elements
        /\ KeepingContainers = {}
               => /\ Len(sections) = 1
                  /\ IsCatchAll(sections[1])
                  /\ sections[1].childElements = elements

\* C1 witness: two or more containers were found, none kept enough members,
\* and the catch-all was returned for a non-empty list.
C1_Witness ==
    /\ grouped
    /\ Len(CollectContainers(elements)) >= 2
    /\ KeepingContainers = {}
    /\ Len(sections) = 1 /\ IsCatchAll(sections[1])
    /\ sections[1].childElements = elements /\ Len(elements) >= 3

\* C2: every record is a member of at most one returned section.
C2_AtMostOneSection ==
    grouped =>
        \A i, j \in 1..Len(sections) :
            i # j => Refs(sections[i]) \cap Refs(sections[j]) = {}

\* C3: whenever fewer than 2 containers are found, or fewer than 2 of them
\* keep enough members, the output is exactly one catch-all section without
\* a container whose members are all input records.
C3_CatchAllBelowTwo ==
    grouped =>
        (Cardinality(KeepingContainers) < 2
            => /\ Len(sections) = 1
               /\ IsCatchAll(sections[1])
               /\ sections[1].childElements = elements)

\* C4: in every section that has a bounding container, the box of every
\* member lies fully inside the box of the container.
C4_Containment ==
    grouped =>
        \A i \in 1..Len(sections) :
            ~IsCatchAll(sections[i]) =>
                \A k \in 1..Len(sections[i].childElements) :
                    LET m == sections[i].childElements[k]
                        c == sections[i].element
                    IN  /\ Left(c) <= Left(m) /\ Right(m) <= Right(c)
                        /\ Top(c) <= Top(m) /\ Bottom(m) <= Bottom(c)

\* C4 witness: a section around a container was returned although the list
\* holds a record that starts inside that container and reaches beyond it.
C4_Witness ==
    /\ grouped
    /\ \E i \in 1..Len(sections) :
          /\ ~IsCatchAll(sections[i])
          /\ \E k \in 1..Len(elements) :
                /\ Left(elements[k]) > Left(sections[i].element)
                /\ Left(elements[k]) < Right(sections[i].element)
                /\ Right(elements[k]) > Right(sections[i].element)
                /\ elements[k].ref \notin Refs(sections[i])

\* C5: the returned sections are ordered by the document-order position of
\* their containers, also when more than ContainerCap containers are found.
C5_DocumentOrder ==
    grouped =>
        \A i, j \in 1..Len(sections) :
            (i < j /\ ~IsCatchAll(sections[i]) /\ ~IsCatchAll(sections[j]))
                => sections[i].element.ref < sections[j].element.ref

(***************************************************************************)
(* SpecGrouper                                                             *)
(***************************************************************************)
\* C19: for the page of one nav, one article with 5 paragraphs and one loose
\* div, the sections are the nav section and the article section, in that
\* order; the nav section holds the nav, the article section holds the
\* article and its paragraphs, and the div, a record of the list, is in
\* neither.
C19_NavArticleScenario ==
    (grouped /\ elements = NavArticlePage(5)) =>
        /\ Len(sections) = 2
        /\ sections[1].element.ref = 1 /\ Refs(sections[1]) = {1}
        /\ sections[2].element.ref = 2 /\ Refs(sections[2]) = 2..7
        /\ elements[8].tagName = "DIV"

\* the containers found on the page that would keep more than MinMembers
\* members, as positions in the list of found containers
EligibleFound ==
    LET found == CollectContainers(elements)
    IN  {i \in 1..Len(found) :
            Cardinality({k \in 1..Len(elements) :
                            /\ Left(elements[k]) >= Left(found[i])
                            /\ Right(elements[k]) <= Right(found[i])
                            /\ Top(elements[k]) >= Top(found[i])
                            /\ Bottom(elements[k]) <= Bottom(found[i])}) > MinMembers}
SectionContainerRefs ==
    {sections[j].element.ref : j \in 1..Len(sections)} \ {Null.ref}

\* C26: the Grouper returns at most 10 sections, and when more than 10
\* containers are found no discarded container is strictly larger in
\* width*height than a retained one: a found container that would keep
\* enough members and is strictly larger than the container of a returned
\* section is itself the container of a returned section.
C26_AtMostTenLargest ==
    grouped =>
        /\ Len(sections) <= ContainerCap
        /\ LET found == CollectContainers(elements)
           IN  Len(found) > ContainerCap =>
                 \A j \in 1..Len(sections) : \A i \in EligibleFound :
                     (/\ ~IsCatchAll(sections[j])
                      /\ Area(found[i]) > Area(sections[j].element))
                     => found[i].ref \in SectionContainerRefs

\* more than 10 containers were found, sections of two different areas were
\* returned, and a container that would keep enough members was discarded
C26_Witness ==
    /\ grouped
    /\ Len(CollectContainers(elements)) > ContainerCap
    /\ \E j, k \in 1..Len(sections) :
          /\ ~IsCatchAll(sections[j]) /\ ~IsCatchAll(sections[k])
          /\ Area(sections[j].element) > Area(sections[k].element)
    /\ \E i \in EligibleFound :
          CollectContainers(elements)[i].ref \notin SectionContainerRefs

GrouperIdle ==
    /\ elements = <<>>
    /\ sections = <<>>
    /\ grouped = FALSE

BudgetIdle ==
    /\ records = <<>>
    /\ payload = <<>>
    /\ budgeted = FALSE

ScanIdle ==
    /\ page = <<>>
    /\ windowDomData = 0
    /\ domDatas = <<>>
    /\ objects = <<>>
    /\ pending = {}
    /\ scanState = <<>>
    /\ messages = <<>>
    /\ extracted = <<>>
    /\ failed = {}

LODIdle ==
    /\ camera = <<>>
    /\ domElements = <<>>
    /\ lodCounter = 0
    /\ lastEvalCamera = <<>>
    /\ repeatedEval = FALSE
    /\ sinceEval = 0

\* no helper call is modelled
NoCall == [kind |-> "none"]
HelpersIdle ==
    /\ argument = NoCall
    /\ returned = NoCall

ViewerIdle ==
    /\ isDragging = FALSE
    /\ hasDragged = FALSE
    /\ gesture = NoCall
    /\ clickPending = NoCall
    /\ lastClick = NoCall
    /\ focusedInput = 0
    /\ meshes = <<>>
    /\ cityElements = <<>>
    /\ lastToggle = NoCall

BackgroundIdle ==
    /\ currentDomData = 0
    /\ contentScriptActive = {}
    /\ viewerTabId = 0
    /\ scanningTabId = 0
    /\ icon = <<>>
    /\ openTabs = {}
    /\ viewers = <<>>
    /\ tasks = {}
    /\ clicks = 0

OthersIdle == HelpersIdle /\ ViewerIdle /\ BackgroundIdle

InitGrouper ==
    GrouperIdle /\ BudgetIdle /\ ScanIdle /\ LODIdle /\ OthersIdle

\* the Extractor emits one more record, of any shape
AddElement ==
    /\ ~grouped
    /\ Len(elements) < MaxMixed
    /\ \E s \in AllShapes :
          elements' = Append(elements, WithRef(s, Len(elements) + 1))
    /\ UNCHANGED <<sections, grouped, bvars, svars, lvars, hvars, vvars, kvars>>

\* the Extractor has scanned a nav-and-article page
LoadPage ==
    /\ ~grouped
    /\ elements = <<>>
    /\ \E blocks \in 0..MaxBlocks : elements' = NavArticlePage(blocks)
    /\ UNCHANGED <<sections, grouped, bvars, svars, lvars, hvars, vvars, kvars>>

\* the Extractor emits one more landmark record
AddContainer ==
    /\ ~grouped
    /\ Len(elements) >= MaxMixed
    /\ Len(elements) < MaxElems
    /\ \E s \in FlaggedShapes :
          elements' = Append(elements, WithRef(s, Len(elements) + 1))
    /\ UNCHANGED <<sections, grouped, bvars, svars, lvars, hvars, vvars, kvars>>

\* createDOMElements calls identifyPageSections(domData.elements)
Group ==
    /\ ~grouped
    /\ sections' = identifyPageSections(elements)
    /\ grouped' = TRUE
    /\ UNCHANGED <<elements, bvars, svars, lvars, hvars, vvars, kvars>>

NextGrouper == AddElement \/ LoadPage \/ AddContainer \/ Group

SpecGrouper == InitGrouper /\ [][NextGrouper]_vars

(***************************************************************************)
(* The Size Budgeter: optimizeDOMData and the then-callback of scanDOM.    *)
(* Strings are modelled by their length; a URL by its scheme, an identity  *)
(* and its length.                                                         *)
(***************************************************************************)
MaxSingles == 2     \* records appended one at a time
MaxRuns == 3        \* runs of RunLen equal records
RunLen == 100
ElemOverhead == 300   \* JSON text of one record besides its strings
PageOverhead == 200   \* JSON text of pageMetrics and the wrapper
ReencodedLen == 4000  \* length of the data URL produced by canvas.toDataURL

Url(kind, id, len) == [kind |-> kind, id |-> id, len |-> len]
NoUrl == Url("none", 0, 0)

Image(src, w, h, proxy) ==
    [present |-> TRUE, src |-> src, width |-> w, height |-> h,
     needsProxy |-> proxy, originalSrc |-> NoUrl, isPlaceholder |-> FALSE]
NoImage ==
    [present |-> FALSE, src |-> NoUrl, width |-> 0, height |-> 0,
     needsProxy |-> FALSE, originalSrc |-> NoUrl, isPlaceholder |-> FALSE]

Article(content, summary, image) ==
    [present |-> TRUE, content |-> content, summary |-> summary, image |-> image]
NoArticle ==
    [present |-> FALSE, content |-> 0, summary |-> 0, image |-> NoImage]

Rec(tag, type, text, image, article, w, h) ==
    [tagName |-> tag, type |-> type, textContent |-> text,
     imageData |-> image, articleData |-> article,
     dimensions |-> [width |-> w, height |-> h]]

\* <img> shown at 400x300 whose src is a 150 kB data URL
RecPhoto == Rec("IMG", "image", 0, Image(Url("data", 1, 150000), 400, 300, FALSE),
                NoArticle, 400, 300)
\* <img> shown at 800x600 whose src is a 150 kB data URL
RecWidePhoto == Rec("IMG", "image", 0, Image(Url("data", 2, 150000), 800, 600, FALSE),
                NoArticle, 800, 600)
\* <img> icon of 8x8 pixels
RecIcon == Rec("IMG", "image", 0, Image(Url("blob", 3, 60), 8, 8, FALSE),
                NoArticle, 8, 8)
\* <p> with 600 characters of text
RecPara == Rec("P", "text", 600, NoImage, NoArticle, 300, 50)
\* <h2> without text of its own
RecHeading == Rec("H2", "header", 0, NoImage, NoArticle, 300, 50)
\* <div> without text, image or article digest
RecSpacer == Rec("DIV", "container", 0, NoImage, NoArticle, 300, 20)
\* <article> with a long digest
RecArticle == Rec("ARTICLE", "container", 20, NoImage,
                Article(1200, 350, NoImage), 300, 300)

SingleRecs == {RecPhoto, RecWidePhoto, RecIcon, RecPara, RecHeading,
               RecSpacer, RecArticle}
RunRecs == {RecPhoto, RecHeading, RecPara}

MAX_MESSAGE_SIZE == 10 * 1024 * 1024
KeepTop == 300
KeepTopAggressive == 100
MaxText == 500
MaxContent == 1000
MaxSummary == 300
MinSide == 10
MaxImageSide == 400
EllipsisLen == 3

\* JSON.stringify(domData).length
ImageSize(img) == IF img.present THEN img.src.len + img.originalSrc.len ELSE 0
ElemSize(e) ==
    ElemOverhead + e.textContent + ImageSize(e.imageData)
    + (IF e.articleData.present
       THEN e.articleData.content + e.articleData.summary
            + ImageSize(e.articleData.image)
       ELSE 0)
RECURSIVE SumSizes(_, _, _)
SumSizes(s, lo, hi) ==
    IF lo > hi THEN 0
    ELSE IF lo = hi THEN ElemSize(s[lo])
    ELSE LET mid == (lo + hi) \div 2
         IN  SumSizes(s, lo, mid) + SumSizes(s, mid + 1, hi)
JsonSize(elems) == PageOverhead + SumSizes(elems, 1, Len(elems))

\* what the sort comparator reads of a record
ImportanceKey(e) ==
    [image |-> e.imageData.present, article |-> e.articleData.present,
     text |-> e.textContent > 10, size |-> Area(e)]

\* the comparator of step 1, on the keys of a and b
importanceCompare(a, b) ==
    IF a.image /\ ~b.image THEN -1
    ELSE IF ~a.image /\ b.image THEN 1
    ELSE IF a.article /\ ~b.article THEN -1
    ELSE IF ~a.article /\ b.article THEN 1
    ELSE IF a.text /\ ~b.text THEN -1
    ELSE IF ~a.text /\ b.text THEN 1
    ELSE b.size - a.size

\* the keys of a set in comparator order
RECURSIVE OrderKeys(_)
OrderKeys(keys) ==
    IF keys = {} THEN <<>>
    ELSE LET first == CHOOSE k \in keys :
                          \A o \in keys \ {k} : importanceCompare(k, o) < 0
         IN  <<first>> \o OrderKeys(keys \ {first})

\* Array.prototype.sort is stable: records with equal keys keep their order,
\* and the groups of equal keys follow each other in comparator order.
RECURSIVE ConcatGroups(_, _)
ConcatGroups(s, keys) ==
    IF keys = <<>> THEN <<>>
    ELSE SelectSeq(s, LAMBDA e : ImportanceKey(e) = Head(keys))
         \o ConcatGroups(s, Tail(keys))

SortByImportance(s) ==
    ConcatGroups(s, OrderKeys({ImportanceKey(s[i]) : i \in 1..Len(s)}))

Slice(s, n) == SubSeq(s, 1, IF Len(s) < n THEN Len(s) ELSE n)

\* step 1: keep the KeepTop most important records
LimitElements(elems) ==
    IF Len(elems) > KeepTop THEN Slice(SortByImportance(elems), KeepTop) ELSE elems

\* step 2: truncate long text
TruncLen(len, max) == IF len > max THEN max + EllipsisLen ELSE len
TruncateText(e) ==
    [e EXCEPT !.textContent = TruncLen(@, MaxText),
              !.articleData =
                  IF @.present
                  THEN [@ EXCEPT !.content = TruncLen(@, MaxContent),
                                 !.summary = TruncLen(@, MaxSummary)]
                  ELSE @]

\* step 3: the filter predicate
IsSignificant(e) ==
    /\ ~(e.dimensions.width < MinSide \/ e.dimensions.height < MinSide)
    /\ ~(/\ ~e.imageData.present
         /\ e.textContent = 0
         /\ ~e.articleData.present
         /\ e.type # "header"
         /\ e.type # "navigation")

\* step 4: re-encode large data-URL images at lower quality
ReduceImage(img) ==
    IF /\ img.present
       /\ img.src.kind = "data"
       /\ (img.width > MaxImageSide \/ img.height > MaxImageSide)
    THEN [img EXCEPT !.src = Url("data", @.id, ReencodedLen)]
    ELSE img
ReduceImages(e) ==
    [e EXCEPT !.imageData = ReduceImage(@),
              !.articleData = IF @.present
                              THEN [@ EXCEPT !.image = ReduceImage(@)]
                              ELSE @]

optimizeDOMData(elems) ==
    LET limited   == LimitElements(elems)
        truncated == [i \in 1..Len(limited) |-> TruncateText(limited[i])]
        filtered  == SelectSeq(truncated, IsSignificant)
    IN  [i \in 1..Len(filtered) |-> ReduceImages(filtered[i])]

\* the then-callback of scanDOM: the elements of the data it sends
SentElements(elems) ==
    LET optimizedData == optimizeDOMData(elems)
    IN  IF JsonSize(optimizedData) > MAX_MESSAGE_SIZE
        THEN Slice(optimizedData, KeepTopAggressive)
        ELSE optimizedData

(***************************************************************************)
(* Properties of the Size Budgeter (checked under SpecBudget).             *)
(***************************************************************************)
PayloadRefs == {payload[k].ref : k \in 1..Len(payload)}
CarriesImageOrArticle(e) == e.imageData.present \/ e.articleData.present
IsDecorative(e) ==
    ~e.imageData.present /\ ~e.articleData.present /\ e.textContent = 0

\* C6: after the Budgeter has run, no record carrying an image or an article
\* digest was dropped while a purely decorative record was kept.
C6_NoDecorativeBeforeContent ==
    budgeted =>
        ~\E a, b \in 1..Len(records) :
            /\ CarriesImageOrArticle(records[a])
            /\ records[a].ref \notin PayloadRefs
            /\ IsDecorative(records[b])
            /\ records[b].ref \in PayloadRefs

\* C7: when the extracted data serializes to more than the payload ceiling,
\* the data sent in domScanComplete serializes to at most the ceiling.
C7_BudgetRespected ==
    (budgeted /\ JsonSize(records) > MAX_MESSAGE_SIZE)
        => JsonSize(payload) <= MAX_MESSAGE_SIZE

(***************************************************************************)
(* SpecBudget                                                              *)
(***************************************************************************)
InitBudget ==
    GrouperIdle /\ BudgetIdle /\ ScanIdle /\ LODIdle /\ OthersIdle

\* one more record is in domData.elements when proxying is over
AddRecord ==
    /\ ~budgeted
    /\ Len(records) % RunLen < MaxSingles
    /\ \E r \in SingleRecs :
          records' = Append(records, WithRef(r, Len(records) + 1))
    /\ UNCHANGED <<payload, budgeted, gvars, svars, lvars, hvars, vvars, kvars>>

\* RunLen more records of the same shape are in domData.elements
AddRun ==
    /\ ~budgeted
    /\ Len(records) \div RunLen < MaxRuns
    /\ \E r \in RunRecs :
          records' = records \o
              [i \in 1..RunLen |-> WithRef(r, Len(records) + i)]
    /\ UNCHANGED <<payload, budgeted, gvars, svars, lvars, hvars, vvars, kvars>>

\* scanDOM's then-callback: optimize, check the size, send domScanComplete
Budget ==
    /\ ~budgeted
    /\ payload' = SentElements(records)
    /\ budgeted' = TRUE
    /\ UNCHANGED <<records, gvars, svars, lvars, hvars, vvars, kvars>>

NextBudget == AddRecord \/ AddRun \/ Budget

SpecBudget == InitBudget /\ [][NextBudget]_vars

(***************************************************************************)
(* The Feature Extractor: scanDOM, traverseNode, isHidden,                 *)
(* extractElementData and proxyImages of the content script.               *)
(***************************************************************************)
MaxScans == 2          \* scanDOM requests handled in one run
HttpUrlLen == 80       \* length of a page image URL
DataUrlLen == 50000    \* length of a data URL made from a fetched image
BlobUrlLen == 60       \* length of a blob: URL
PlaceholderLen == 9000 \* length of the placeholder data URL

\* zIndex is the computed z-index text, as a sequence of characters; style is
\* what getComputedStyle gives and inlineStyle is element.style; the nodes of
\* the page have no id, no class and no inline style
DomNode(tag, display, visibility, opacity, zIndex, ow, oh, text, src, bg, throws) ==
    [nodeName |-> tag,
     id |-> <<>>,              \* element.id, as a sequence of characters
     classList |-> <<>>,       \* element.classList, a sequence of such texts
     inlineStyle |-> [backgroundImage |-> NoUrl],
     style |-> [display |-> display, visibility |-> visibility,
                opacity |-> opacity, zIndex |-> zIndex,
                backgroundImage |-> bg],
     offsetWidth |-> ow, offsetHeight |-> oh,
     textContent |-> text,
     src |-> src,              \* element.src
     styleThrows |-> throws]   \* getComputedStyle(element) throws

\* the kinds of element a page node can be; n is the node, which also
\* identifies the URL of its image
KindDiv(n) ==
    DomNode("DIV", "block", "visible", "1", <<"a", "u", "t", "o">>,
            300, 100, 0, NoUrl, NoUrl, FALSE)
KindArticle(n) ==
    DomNode("ARTICLE", "block", "visible", "1", <<"5">>,
            300, 300, 40, NoUrl, NoUrl, FALSE)
KindImg(n) ==
    DomNode("IMG", "inline", "visible", "1", <<"-", "1">>,
            200, 100, 0, Url("http", n, HttpUrlLen), NoUrl, FALSE)
KindHidden(n) ==
    DomNode("DIV", "none", "visible", "1", <<"a", "u", "t", "o">>,
            0, 0, 0, NoUrl, NoUrl, FALSE)
KindScript(n) ==
    DomNode("SCRIPT", "none", "visible", "1", <<"a", "u", "t", "o">>,
            0, 0, 20, NoUrl, NoUrl, FALSE)
KindThrows(n) ==
    DomNode("DIV", "block", "visible", "1", <<"a", "u", "t", "o">>,
            300, 100, 0, NoUrl, NoUrl, TRUE)
\* a <div> with the given style and box and nothing else
KindBox(display, visibility, opacity, ow, oh) ==
    DomNode("DIV", display, visibility, opacity, <<"a", "u", "t", "o">>,
            ow, oh, 0, NoUrl, NoUrl, FALSE)
Body ==
    DomNode("BODY", "block", "visible", "1", <<"0">>,
            800, 600, 0, NoUrl, NoUrl, FALSE)

\* the page: <body> (node 1) holds nodes 2 and 4, node 2 holds node 3
Root == 1
Children == <<  <<2, 4>>, <<3>>, <<>>, <<>>  >>
Nodes == 1..Len(Children)
Kinds(n) ==
    IF n = 1 THEN {Body}
    ELSE IF n = 2 THEN {KindDiv(n), KindArticle(n), KindHidden(n), KindThrows(n),
                        KindBox("block", "visible", "1", 300, 0),
                        KindBox("block", "visible", "0", 300, 100),
                        KindBox("block", "hidden", "1", 300, 100)}
    ELSE IF n = 3 THEN {KindDiv(n), KindImg(n), KindHidden(n), KindScript(n),
                        KindThrows(n)}
    ELSE {KindDiv(n), KindThrows(n)}
Pages == {pg \in [Nodes -> UNION {Kinds(n) : n \in Nodes}] :
             \A n \in Nodes : pg[n] \in Kinds(n)}

\* the descendants of a node in document order
RECURSIVE Descendants(_)
RECURSIVE DescendantsOfAll(_)
Descendants(n) == DescendantsOfAll(Children[n])
DescendantsOfAll(kids) ==
    IF kids = <<>> THEN <<>>
    ELSE <<Head(kids)>> \o Descendants(Head(kids)) \o DescendantsOfAll(Tail(kids))

\* element.querySelector("img").src, NoUrl when there is no such descendant
FirstImg(pg, n) ==
    LET imgs == SelectSeq(Descendants(n),
                          LAMBDA d : pg[d].nodeName = "IMG" /\ pg[d].src # NoUrl)
    IN  IF imgs = <<>> THEN NoUrl ELSE pg[imgs[1]].src

isHidden(element) ==
    \/ element.style.display = "none"
    \/ element.style.visibility = "hidden"
    \/ element.style.opacity = "0"
    \/ (element.offsetWidth = 0 /\ element.offsetHeight = 0)

\* text.includes(pattern)
Includes(text, pattern) ==
    \E i \in 1..(Len(text) - Len(pattern) + 1) :
        SubSeq(text, i, i + Len(pattern) - 1) = pattern

\* variant: the heading test comes before the navigation test
classifyElement_headingFirst(element) ==
    LET tagName == element.nodeName
    IN  IF tagName \in {"H1", "H2", "H3", "H4", "H5", "H6"} THEN "header"
        ELSE IF \/ tagName = "NAV"
                \/ Includes(element.id, <<"n", "a", "v">>)
                \/ \E c \in DOMAIN element.classList :
                       Includes(element.classList[c], <<"n", "a", "v">>)
        THEN "navigation"
        ELSE IF tagName \in {"UL", "OL"} THEN "list"
        ELSE IF tagName = "IMG" \/ element.inlineStyle.backgroundImage # NoUrl
        THEN "image"
        ELSE IF tagName \in {"BUTTON", "A"} THEN "interactive"
        ELSE IF tagName \in {"INPUT", "TEXTAREA", "SELECT", "FORM"} THEN "form"
        ELSE IF tagName \in {"VIDEO", "AUDIO", "CANVAS"} THEN "media"
        ELSE IF tagName \in {"DIV", "SECTION", "ARTICLE"} THEN "container"
        ELSE IF tagName \in {"P", "SPAN"} THEN "text"
        ELSE "other"

\* tag names are kept in upper case, as element.tagName has them
classifyElement(element) ==
    LET tagName == element.nodeName
    IN  IF \/ tagName = "NAV"
           \/ Includes(element.id, <<"n", "a", "v">>)
           \/ \E c \in DOMAIN element.classList :
                  Includes(element.classList[c], <<"n", "a", "v">>)
        THEN "navigation"
        ELSE IF tagName \in {"H1", "H2", "H3", "H4", "H5", "H6"} THEN "header"
        ELSE IF tagName \in {"UL", "OL"} THEN "list"
        ELSE IF tagName = "IMG" \/ element.inlineStyle.backgroundImage # NoUrl
        THEN "image"
        ELSE IF tagName \in {"BUTTON", "A"} THEN "interactive"
        ELSE IF tagName \in {"INPUT", "TEXTAREA", "SELECT", "FORM"} THEN "form"
        ELSE IF tagName \in {"VIDEO", "AUDIO", "CANVAS"} THEN "media"
        ELSE IF tagName \in {"DIV", "SECTION", "ARTICLE"} THEN "container"
        ELSE IF tagName \in {"P", "SPAN"} THEN "text"
        ELSE "other"

\* does extractElementData return a record (and not null)?
ExtractsRecord(element) ==
    ~(\/ element.offsetWidth = 0
      \/ element.offsetHeight = 0
      \/ element.style.display = "none"
      \/ element.style.visibility = "hidden")

ImageOf(src, w, h) == Image(src, w, h, src.kind = "http")

extractImageData(pg, n) ==
    LET element == pg[n]
    IN  IF element.nodeName = "IMG" /\ element.src # NoUrl
        THEN ImageOf(element.src, element.offsetWidth, element.offsetHeight)
        ELSE IF element.nodeName \in {"DIV", "A", "FIGURE"}
        THEN IF element.style.backgroundImage # NoUrl
             THEN ImageOf(element.style.backgroundImage,
                          element.offsetWidth, element.offsetHeight)
             ELSE IF FirstImg(pg, n) # NoUrl
             THEN ImageOf(FirstImg(pg, n),
                          element.offsetWidth, element.offsetHeight)
             ELSE NoImage
        ELSE NoImage

\* the digest texts are taken to be as long as the text of the article
extractArticleData(pg, n) ==
    Article(pg[n].textContent, pg[n].textContent,
            IF FirstImg(pg, n) # NoUrl
            THEN ImageOf(FirstImg(pg, n), pg[n].offsetWidth, pg[n].offsetHeight)
            ELSE NoImage)

\* parseInt(text, 10): an optional sign and the leading decimal digits, NaN
\* when there is no digit
DigitValue ==
    [c \in {"0", "1", "2", "3", "4", "5", "6", "7", "8", "9"} |->
        CASE c = "0" -> 0 [] c = "1" -> 1 [] c = "2" -> 2 [] c = "3" -> 3
          [] c = "4" -> 4 [] c = "5" -> 5 [] c = "6" -> 6 [] c = "7" -> 7
          [] c = "8" -> 8 [] c = "9" -> 9]

RECURSIVE ParseDigits(_, _, _)
ParseDigits(text, i, acc) ==
    IF i > Len(text) \/ text[i] \notin DOMAIN DigitValue THEN acc
    ELSE ParseDigits(text, i + 1, acc * 10 + DigitValue[text[i]])

parseInt(text) ==
    LET signed == text # <<>> /\ text[1] \in {"-", "+"}
        first  == IF signed THEN 2 ELSE 1
    IN  IF first > Len(text) \/ text[first] \notin DOMAIN DigitValue
        THEN [nan |-> TRUE, value |-> 0]
        ELSE [nan |-> FALSE,
              value |-> (IF text[1] = "-" THEN -1 ELSE 1)
                            * ParseDigits(text, first, 0)]

\* the zIndex entry of the record literal; v || 0 is 0 for NaN and for 0
extractZIndex(element) ==
    LET v == parseInt(element.style.zIndex)
    IN  IF element.style.zIndex # <<"a", "u", "t", "o">>
        THEN (IF v.nan \/ v.value = 0 THEN 0 ELSE v.value)
        ELSE 0

extractElementData(pg, n) ==
    LET element == pg[n]
    IN  [zIndex |-> extractZIndex(element)]
        @@ WithRef(Rec(element.nodeName, classifyElement(element),
                       element.textContent,
                       extractImageData(pg, n),
                       IF element.nodeName = "ARTICLE"
                       THEN extractArticleData(pg, n) ELSE NoArticle,
                       element.offsetWidth, element.offsetHeight), n)

\* traverseNode pushes onto st.elems; st.thrown records an exception that
\* unwinds the whole recursion
RECURSIVE traverseNode(_, _, _)
RECURSIVE traverseChildren(_, _, _)
\* variant: a hidden node gives no record but its children are visited
traverseNode_perNode(pg, n, st) ==
    IF st.thrown THEN st
    ELSE IF pg[n].nodeName \in {"SCRIPT", "STYLE", "META", "LINK"} THEN st
    ELSE IF pg[n].styleThrows THEN [st EXCEPT !.thrown = TRUE]
    ELSE traverseChildren(pg, Children[n],
            IF ~isHidden(pg[n]) /\ ExtractsRecord(pg[n])
            THEN [st EXCEPT !.elems = Append(@, extractElementData(pg, n))]
            ELSE st)

traverseNode(pg, n, st) ==
    IF st.thrown THEN st
    ELSE IF pg[n].nodeName \in {"SCRIPT", "STYLE", "META", "LINK"} THEN st
    ELSE IF pg[n].styleThrows THEN [st EXCEPT !.thrown = TRUE]
    ELSE IF isHidden(pg[n]) THEN st
    ELSE traverseChildren(pg, Children[n],
            IF ExtractsRecord(pg[n])
            THEN [st EXCEPT !.elems = Append(@, extractElementData(pg, n))]
            ELSE st)
traverseChildren(pg, kids, st) ==
    IF kids = <<>> THEN st
    ELSE traverseChildren(pg, Tail(kids), traverseNode(pg, Head(kids), st))

traverseBody(pg) == traverseNode(pg, Root, [elems |-> <<>>, thrown |-> FALSE])

\* the image slots of a record that proxyImages hands to the resolver
Slots == {"imageData", "articleImage"}
SlotImage(e, slot) ==
    IF slot = "imageData" THEN e.imageData ELSE e.articleData.image
WithSlotImage(e, slot, img) ==
    IF slot = "imageData" THEN [e EXCEPT !.imageData = img]
    ELSE [e EXCEPT !.articleData.image = img]
NeedsProxy(e, slot) ==
    /\ (slot = "articleImage" => e.articleData.present)
    /\ SlotImage(e, slot).present
    /\ SlotImage(e, slot).needsProxy

\* proxyImages, synchronous part: remember the original URL
StoreOriginal(e) ==
    LET e1 == IF NeedsProxy(e, "imageData")
              THEN [e EXCEPT !.imageData.originalSrc = e.imageData.src] ELSE e
    IN  IF NeedsProxy(e1, "articleImage")
        THEN [e1 EXCEPT !.articleData.image.originalSrc = e1.articleData.image.src]
        ELSE e1

\* what fetchImageAsDataUrl can settle with
Outcomes == {"string", "object", "placeholder", "none", "reject"}

\* variant: a failed fetch removes the image reference
SettleImage_dropOnFailure(img, outcome) ==
    IF outcome = "string"
    THEN [img EXCEPT !.src = Url("data", @.id, DataUrlLen), !.needsProxy = FALSE]
    ELSE IF outcome = "object"
    THEN [img EXCEPT !.src = Url("blob", @.id, BlobUrlLen),
                     !.isPlaceholder = FALSE, !.needsProxy = FALSE]
    ELSE IF outcome = "placeholder"
    THEN [img EXCEPT !.src = Url("data", @.id, PlaceholderLen),
                     !.isPlaceholder = TRUE, !.needsProxy = FALSE]
    ELSE NoImage

\* proxyImages, the then/catch handlers of one fetch
SettleImage(img, outcome) ==
    IF outcome = "string"
    THEN [img EXCEPT !.src = Url("data", @.id, DataUrlLen), !.needsProxy = FALSE]
    ELSE IF outcome = "object"
    THEN [img EXCEPT !.src = Url("blob", @.id, BlobUrlLen),
                     !.isPlaceholder = FALSE, !.needsProxy = FALSE]
    ELSE IF outcome = "placeholder"
    THEN [img EXCEPT !.src = Url("data", @.id, PlaceholderLen),
                     !.isPlaceholder = TRUE, !.needsProxy = FALSE]
    ELSE [img EXCEPT !.isPlaceholder = TRUE, !.needsProxy = FALSE]

\* the records of a domData whose elements list holds the objects `list'
ListRecords(list, objs) == [i \in 1..Len(list) |-> objs[list[i]]]
RefsOf(recs) == {recs[i].ref : i \in 1..Len(recs)}
RefList(recs) == [i \in 1..Len(recs) |-> recs[i].ref]
RecordOf(recs, r) == recs[CHOOSE i \in 1..Len(recs) : recs[i].ref = r]

\* scanDOM's then-callback on the domData object `list' / `objs': the new
\* elements list, the objects as mutated in place, and the data sent
Callback(list, objs) ==
    LET elems     == ListRecords(list, objs)
        limited   == LimitElements(elems)
        truncated == [i \in 1..Len(limited) |-> TruncateText(limited[i])]
        optimized == optimizeDOMData(elems)
        sent      == SentElements(elems)
    IN  [list |-> RefList(sent),
         objs |-> [r \in DOMAIN objs |->
                      IF r \in RefsOf(optimized) THEN RecordOf(optimized, r)
                      ELSE IF r \in RefsOf(truncated) THEN RecordOf(truncated, r)
                      ELSE objs[r]],
         data |-> sent]

(***************************************************************************)
(* Properties of the Feature Extractor (checked under SpecScan).           *)
(***************************************************************************)
Scans == 1..Len(scanState)
\* the page with every throwing node replaced by a node that is pruned
WithoutThrowing(pg) ==
    [n \in Nodes |-> IF pg[n].styleThrows
                     THEN [pg[n] EXCEPT !.styleThrows = FALSE,
                                        !.style.display = "none"]
                     ELSE pg[n]]
\* the URL that extractElementData read from the page for an image slot
PageUrl(f) == SlotImage(extractElementData(page, f.ref), f.slot).src

\* C8: a node whose style read throws is skipped and the scan continues: the
\* records of the nodes visited before and after it are produced and the
\* scan is not aborted.
C8_NodeFailureSkipped ==
    \A s \in Scans :
        /\ scanState[s] # "aborted"
        /\ \A n \in RefsOf(traverseBody(WithoutThrowing(page)).elems) :
              \E i \in 1..Len(extracted[s]) : extracted[s][i] = n

\* C9: after the resolution of an image failed (rejected or no result), the
\* record still has its image reference, originalSrc is the URL read from
\* the page, and the image is marked as a placeholder.
C9_FailedImageKept ==
    \A f \in failed :
        LET e   == objects[f.scan][f.ref]
            img == SlotImage(e, f.slot)
        IN  /\ f.slot = "articleImage" => e.articleData.present
            /\ img.present
            /\ img.originalSrc = PageUrl(f)
            /\ img.originalSrc.kind = "http"
            /\ img.isPlaceholder

\* C9 witness: a fetch failed, its scan has sent its message, and the sent
\* record still points at the page URL.
C9_Witness ==
    \E f \in failed :
        /\ scanState[f.scan] = "sent"
        /\ \E m \in 1..Len(messages) :
              \E k \in 1..Len(messages[m].elements) :
                  /\ messages[m].elements[k].ref = f.ref
                  /\ SlotImage(messages[m].elements[k], f.slot).src = PageUrl(f)
                  /\ SlotImage(messages[m].elements[k], f.slot).isPlaceholder

\* the nodes in depth-first pre-order, the place of each node in that
\* order, and each node with its ancestors
PreOrder == <<Root>> \o Descendants(Root)
PreOrderIndex == [n \in Nodes |-> CHOOSE k \in 1..Len(PreOrder) : PreOrder[k] = n]
SelfAndAncestors ==
    [n \in Nodes |->
        {a \in Nodes : a = n \/ \E k \in 1..Len(Descendants(a)) :
                                    Descendants(a)[k] = n}]
InPreOrder(seq) ==
    \A i, j \in 1..Len(seq) :
        i < j => PreOrderIndex[seq[i]] < PreOrderIndex[seq[j]]

NonVisual(e) == e.nodeName \in {"SCRIPT", "STYLE", "META", "LINK"}
StyledAway(e) ==
    \/ e.style.display = "none"
    \/ e.style.visibility = "hidden"
    \/ e.style.opacity = "0"
\* a box that renders nothing, and a box of no width and no height
ZeroArea(e) == e.offsetWidth = 0 \/ e.offsetHeight = 0
ZeroBoth(e) == e.offsetWidth = 0 /\ e.offsetHeight = 0

\* C17 as stated: no record for a node that is non-visual, styled away or has
\* a box that renders nothing, nor for a descendant of such a node, and the
\* records are in pre-order.
C17_SubtreePruned ==
    \A s \in Scans :
        /\ \A i \in 1..Len(extracted[s]) :
              \A a \in SelfAndAncestors[extracted[s][i]] :
                  ~(NonVisual(page[a]) \/ StyledAway(page[a])
                        \/ ZeroArea(page[a]))
        /\ InPreOrder(extracted[s])

\* the nodes that are left when every subtree under a non-visual node, a
\* styled-away node or a node of no width and no height is cut, and that
\* have a width and a height themselves
Remaining(n) ==
    /\ \A a \in SelfAndAncestors[n] :
          ~(NonVisual(page[a]) \/ StyledAway(page[a]) \/ ZeroBoth(page[a]))
    /\ ~ZeroArea(page[n])

\* C17 amended: a subtree is cut under a node that is non-visual, styled
\* away or has neither width nor height; a node with only one of the two
\* being zero gives no record itself but its descendants are visited; the
\* records of a completed scan are exactly the remaining nodes in pre-order.
C17_SubtreePrunedBothZero ==
    \A s \in Scans :
        /\ \A i \in 1..Len(extracted[s]) : Remaining(extracted[s][i])
        /\ InPreOrder(extracted[s])
        /\ scanState[s] # "aborted"
              => extracted[s] = SelectSeq(PreOrder, Remaining)

\* C17 witness: a completed scan of a page whose node 2 is fully transparent
\* and has a visible child: the child has no record, the node after the
\* subtree has one.
C17_Witness ==
    \E s \in Scans :
        /\ scanState[s] = "sent"
        /\ page[2].style.opacity = "0"
        /\ ~ZeroArea(page[3]) /\ ~StyledAway(page[3]) /\ ~NonVisual(page[3])
        /\ extracted[s] = <<1, 4>>

\* C16: every record a scan extracted has zIndex >= 0.
C16_StackOrderNonNegative ==
    \A s \in Scans :
        \A r \in DOMAIN objects[s] : objects[s][r].zIndex >= 0

\* C15: every message carries the domData object filled by the scan whose
\* callback sent it, and no domData object is sent by two messages.
C15_NoCrossTalk ==
    /\ \A m \in 1..Len(messages) : messages[m].source = messages[m].scan
    /\ \A m1, m2 \in 1..Len(messages) :
          messages[m1].source = messages[m2].source => m1 = m2

\* the messages sent by the then-callback of scan s
MessagesOf(s) == {m \in 1..Len(messages) : messages[m].scan = s}

\* C28: every scanDOM invocation sends exactly one domScanComplete message,
\* and sends it only after every image-proxy attempt started by that scan
\* has settled: no scan ever has two messages or a message while one of its
\* fetches is pending, and once no fetch is pending every scan has its
\* message.
C28_OneMessagePerScan ==
    \A s \in Scans :
        /\ Cardinality(MessagesOf(s)) <= 1
        /\ MessagesOf(s) # {} => ~\E p \in pending : p.scan = s
        /\ pending = {} => MessagesOf(s) # {}

(***************************************************************************)
(* SpecScan                                                                *)
(***************************************************************************)
InitScan ==
    /\ GrouperIdle /\ BudgetIdle /\ LODIdle /\ OthersIdle
    /\ page \in Pages
    /\ windowDomData = 0
    /\ domDatas = <<>>
    /\ objects = <<>>
    /\ pending = {}
    /\ scanState = <<>>
    /\ messages = <<>>
    /\ extracted = <<>>
    /\ failed = {}

\* the onMessage listener receives "scanDOM": scanDOM() up to the return of
\* proxyImages, and the then-callback at once when no fetch was started
ScanDOM ==
    /\ Len(scanState) < MaxScans
    /\ LET s        == Len(scanState) + 1
           result   == traverseBody(page)
           found    == result.elems
           recs     == [i \in 1..Len(found) |-> StoreOriginal(found[i])]
           promises == {[scan |-> s, ref |-> r, slot |-> sl] :
                           r \in RefsOf(found), sl \in Slots}
           started  == {p \in promises :
                           NeedsProxy(RecordOf(found, p.ref), p.slot)}
           cb       == Callback(RefList(recs),
                                [r \in RefsOf(recs) |-> RecordOf(recs, r)])
       IN  /\ windowDomData' = s
           /\ extracted' = Append(extracted, RefList(found))
           /\ IF result.thrown
              THEN /\ domDatas' = Append(domDatas, RefList(found))
                   /\ objects' = Append(objects,
                          [r \in RefsOf(found) |-> RecordOf(found, r)])
                   /\ scanState' = Append(scanState, "aborted")
                   /\ UNCHANGED <<pending, messages>>
              ELSE IF started = {}
              THEN /\ domDatas' = Append(domDatas, cb.list)
                   /\ objects' = Append(objects, cb.objs)
                   /\ scanState' = Append(scanState, "sent")
                   /\ messages' = Append(messages,
                          [scan |-> s, source |-> s, elements |-> cb.data])
                   /\ UNCHANGED pending
              ELSE /\ domDatas' = Append(domDatas, RefList(recs))
                   /\ objects' = Append(objects,
                          [r \in RefsOf(recs) |-> RecordOf(recs, r)])
                   /\ scanState' = Append(scanState, "proxying")
                   /\ pending' = pending \cup started
                   /\ UNCHANGED messages
    /\ UNCHANGED <<page, failed, gvars, bvars, lvars, hvars, vvars, kvars>>

\* one fetchImageAsDataUrl promise settles; when it is the last one of its
\* scan, Promise.all resolves and the then-callback of scanDOM runs
FetchSettle ==
    \E p \in pending, o \in Outcomes :
        LET e        == objects[p.scan][p.ref]
            e1       == WithSlotImage(e, p.slot, SettleImage(SlotImage(e, p.slot), o))
            objects1 == [objects EXCEPT ![p.scan][p.ref] = e1]
            rest     == pending \ {p}
            w        == windowDomData
            cb       == Callback(domDatas[w], objects1[w])
        IN  /\ pending' = rest
            /\ failed' = IF o \in {"none", "reject"} THEN failed \cup {p} ELSE failed
            /\ IF \E q \in rest : q.scan = p.scan
               THEN /\ objects' = objects1
                    /\ UNCHANGED <<domDatas, scanState, messages>>
               ELSE /\ domDatas' = [domDatas EXCEPT ![w] = cb.list]
                    /\ objects' = [objects1 EXCEPT ![w] = cb.objs]
                    /\ scanState' = [scanState EXCEPT ![p.scan] = "sent"]
                    /\ messages' = Append(messages,
                           [scan |-> p.scan, source |-> w,
                            elements |-> cb.data])
            /\ UNCHANGED <<page, windowDomData, extracted, gvars, bvars, lvars, hvars, vvars, kvars>>

NextScan == ScanDOM \/ FetchSettle

SpecScan == InitScan /\ [][NextScan]_vars

(***************************************************************************)
(* The LOD Manager: updateLevelOfDetail, simplifyExhibit and               *)
(* restoreExhibit of the museum viewer.                                    *)
(***************************************************************************)
Vec(x, y, z) == [x |-> x, y |-> y, z |-> z]

\* layoutRooms for two sections: the circle layout of radius
\* roomSize + corridorWidth around (0, 80); default room height 10
roomSize == 40
corridorWidth == 15
RoomHeight == 10
museumRooms ==
    << [index |-> 0,
        position |-> Vec(0, RoomHeight \div 2, 80 + (roomSize + corridorWidth))],
       [index |-> 1,
        position |-> Vec(0, RoomHeight \div 2, 80 - (roomSize + corridorWidth))] >>

\* the positions the controls can move the camera to; the first one is where
\* initScene puts the camera
StartPosition == Vec(0, 2, 50)
CameraPositions ==
    {StartPosition} \cup {Vec(0, 5, z) : z \in {-20, 135, 190, 400}}

\* placeExhibitsOnWalls: where the only exhibit of a wall is put
WallPosition(room, wall) ==
    LET halfWall == (roomSize - 4) \div 2
        p == room.position
    IN  CASE wall = "north" -> Vec(p.x, p.y, p.z - halfWall)
          [] wall = "east"  -> Vec(p.x + halfWall, p.y, p.z)
          [] wall = "south" -> Vec(p.x, p.y, p.z + halfWall)
          [] wall = "west"  -> Vec(p.x - halfWall, p.y, p.z)

Child(visible) == [visible |-> visible, originalVisibility |-> "undefined"]

\* placeExhibitsOnWalls: the rotation.y of the exhibits of a wall, in degrees
WallDir(wall) ==
    CASE wall = "north" -> 0
      [] wall = "east"  -> 90
      [] wall = "south" -> 180
      [] wall = "west"  -> -90

\* an object of domElements as placeExhibitsOnWalls leaves it: the only
\* exhibit of a wall of room number `room', made for record `record';
\* material is "undefined" for a THREE.Group
Exhibit(room, wall, record, material, children) ==
    [position |-> WallPosition(museumRooms[room + 1], wall),
     rotation |-> WallDir(wall),
     userData |-> [domElement |-> record,
                   roomIndex |-> room,
                   originalPosition |->
                       WallPosition(museumRooms[room + 1], wall),
                   simplifiedState |-> "undefined",
                   originalMaterials |-> "undefined"],
     visible |-> TRUE,
     material |-> material,
     children |-> children]

\* room 0 shows a mesh, a group of four parts and a group of two parts on its
\* north, east and south walls; room 1 shows a mesh on its north wall
InitialExhibits ==
    << Exhibit(0, "north", 1, "original", <<>>),
       Exhibit(0, "east", 2, "undefined",
               <<Child(TRUE), Child(TRUE), Child(TRUE), Child(TRUE)>>),
       Exhibit(0, "south", 3, "undefined", <<Child(TRUE), Child(TRUE)>>),
       Exhibit(1, "north", 4, "original", <<>>) >>

Undefined == -1          \* window.lodCounter before the first call
LodPeriod == 10
maxExhibitDistance == 80
maxRoomDistance == 150

\* variant: a counter that was undefined starts at 0 without being advanced
NextLodCounter_startAtZero(c) ==
    IF c = Undefined THEN 0 ELSE (c + 1) % LodPeriod

\* the first two statements of updateLevelOfDetail: the new window.lodCounter
NextLodCounter(c) == ((IF c = Undefined THEN 0 ELSE c) + 1) % LodPeriod

\* a.distanceTo(b) > d, for d >= 0, without the square root
Sq(n) == n * n
DistSq(a, b) == Sq(a.x - b.x) + Sq(a.y - b.y) + Sq(a.z - b.z)
FartherThan(a, b, d) == DistSq(a, b) > Sq(d)

Truthy(v) == v = "true"
BoolText(b) == IF b THEN "true" ELSE "false"

\* variant: the original visibility is stored on every call
simplifyExhibit_alwaysStore(exhibit) ==
    IF exhibit.userData.simplifiedState # "undefined" THEN exhibit
    ELSE LET e1 == IF /\ exhibit.userData.originalMaterials = "undefined"
                      /\ exhibit.material # "undefined"
                   THEN [exhibit EXCEPT
                            !.userData.originalMaterials = exhibit.material,
                            !.material = "simple",
                            !.userData.simplifiedState = "true"]
                   ELSE exhibit
         IN  IF Len(e1.children) > 3
             THEN [e1 EXCEPT !.children =
                      [i \in 1..Len(e1.children) |->
                          IF i >= 3
                          THEN [visible |-> FALSE,
                                originalVisibility |->
                                    BoolText(e1.children[i].visible)]
                          ELSE e1.children[i]]]
             ELSE e1

simplifyExhibit(exhibit) ==
    IF exhibit.userData.simplifiedState # "undefined" THEN exhibit
    ELSE LET e1 == IF /\ exhibit.userData.originalMaterials = "undefined"
                      /\ exhibit.material # "undefined"
                   THEN [exhibit EXCEPT
                            !.userData.originalMaterials = exhibit.material,
                            !.material = "simple",
                            !.userData.simplifiedState = "true"]
                   ELSE exhibit
         IN  IF Len(e1.children) > 3
             THEN [e1 EXCEPT !.children =
                      [i \in 1..Len(e1.children) |->
                          IF i >= 3     \* children[2] and the ones behind it
                          THEN [visible |-> FALSE,
                                originalVisibility |->
                                    IF ~Truthy(e1.children[i].originalVisibility)
                                    THEN BoolText(e1.children[i].visible)
                                    ELSE e1.children[i].originalVisibility]
                          ELSE e1.children[i]]]
             ELSE e1

restoreExhibit(exhibit) ==
    IF exhibit.userData.simplifiedState = "true"
    THEN [exhibit EXCEPT
            !.material = IF exhibit.userData.originalMaterials # "undefined"
                         THEN exhibit.userData.originalMaterials ELSE @,
            !.children =
                [i \in 1..Len(exhibit.children) |->
                    IF exhibit.children[i].originalVisibility # "undefined"
                    THEN [exhibit.children[i] EXCEPT !.visible =
                             Truthy(exhibit.children[i].originalVisibility)]
                    ELSE exhibit.children[i]],
            !.userData.simplifiedState = "false"]
    ELSE exhibit

\* variant: an exhibit out of range is also moved below the floor
applyLOD_moveAway(exhibit, cameraPosition) ==
    IF FartherThan(exhibit.userData.originalPosition, cameraPosition,
                   maxExhibitDistance)
    THEN [exhibit EXCEPT !.visible = FALSE, !.position.y = -1000]
    ELSE IF FartherThan(exhibit.userData.originalPosition, cameraPosition,
                        (maxExhibitDistance * 6) \div 10)
    THEN simplifyExhibit([exhibit EXCEPT !.visible = TRUE])
    ELSE restoreExhibit([exhibit EXCEPT !.visible = TRUE])

\* the per-exhibit body of the loop of a room that is in range
applyLOD(exhibit, cameraPosition) ==
    IF FartherThan(exhibit.userData.originalPosition, cameraPosition,
                   maxExhibitDistance)
    THEN [exhibit EXCEPT !.visible = FALSE]
    ELSE IF FartherThan(exhibit.userData.originalPosition, cameraPosition,
                        (maxExhibitDistance * 6) \div 10)
    THEN simplifyExhibit([exhibit EXCEPT !.visible = TRUE])
    ELSE restoreExhibit([exhibit EXCEPT !.visible = TRUE])

\* variant: a room out of range leaves its exhibits as they are
processRoom_noCull(room, exhibits, cameraPosition) ==
    IF FartherThan(room.position, cameraPosition, maxRoomDistance)
    THEN exhibits
    ELSE [i \in 1..Len(exhibits) |-> applyLOD(exhibits[i], cameraPosition)]

\* the forEach body for one room
processRoom(room, exhibits, cameraPosition) ==
    IF FartherThan(room.position, cameraPosition, maxRoomDistance)
    THEN [i \in 1..Len(exhibits) |->
            IF exhibits[i].userData.roomIndex = room.index
            THEN [exhibits[i] EXCEPT !.visible = FALSE]
            ELSE exhibits[i]]
    ELSE [i \in 1..Len(exhibits) |-> applyLOD(exhibits[i], cameraPosition)]

RECURSIVE processRooms(_, _, _)
processRooms(rooms, exhibits, cameraPosition) ==
    IF rooms = <<>> THEN exhibits
    ELSE processRooms(Tail(rooms),
                      processRoom(Head(rooms), exhibits, cameraPosition),
                      cameraPosition)

(***************************************************************************)
(* Properties of the LOD Manager (checked under SpecLOD).                  *)
(***************************************************************************)
\* a step in which updateLevelOfDetail evaluates the tiers
IsEvaluation == lodCounter' = 0 /\ lodCounter' # lodCounter

\* C10: an evaluation made with the camera where it was at the previous
\* evaluation changes no visible flag, material, simplifiedState,
\* originalMaterials or originalVisibility.
C10_Idempotent ==
    [][(IsEvaluation /\ lastEvalCamera = camera)
           => domElements' = domElements]_vars

\* C10 witness: the last evaluation repeated the previous one at the same
\* camera position, with one exhibit simplified by material and another by
\* hidden parts.
C10_Witness ==
    /\ repeatedEval
    /\ \E i \in 1..Len(domElements) :
          /\ domElements[i].visible
          /\ domElements[i].material = "simple"
          /\ domElements[i].userData.simplifiedState = "true"
    /\ \E i \in 1..Len(domElements) :
          /\ domElements[i].visible
          /\ \E k \in 1..Len(domElements[i].children) :
                /\ ~domElements[i].children[k].visible
                /\ domElements[i].children[k].originalVisibility = "true"

\* at least one evaluation has been made (lastEvalCamera is a camera position)
Evaluated == lastEvalCamera \in CameraPositions

\* some room is in range of the camera, so the per-exhibit loop has run
RoomInRange(cam) ==
    \E r \in 1..Len(museumRooms) :
        ~FartherThan(museumRooms[r].position, cam, maxRoomDistance)

\* the exhibit is in the full-detail band of the camera
InFullBand(exhibit, cam) ==
    ~FartherThan(exhibit.userData.originalPosition, cam,
                 (maxExhibitDistance * 6) \div 10)

\* the exhibit is in the reduced band of the camera
InReducedBand(exhibit, cam) ==
    /\ ~InFullBand(exhibit, cam)
    /\ ~FartherThan(exhibit.userData.originalPosition, cam, maxExhibitDistance)

Fidelity(exhibit) ==
    [material |-> exhibit.material,
     parts |-> [k \in 1..Len(exhibit.children) |-> exhibit.children[k].visible]]

RoomOf(exhibit) == museumRooms[exhibit.userData.roomIndex + 1]

RoomIsFar(room, cam) == FartherThan(room.position, cam, maxRoomDistance)

\* C12: after an evaluation every exhibit whose room is farther from the
\* camera than maxRoomDistance is invisible, whether its room was processed
\* before or after the rooms that are in range.
C12_FarRoomHidden ==
    Evaluated =>
        \A i \in 1..Len(domElements) :
            RoomIsFar(RoomOf(domElements[i]), lastEvalCamera)
                => ~domElements[i].visible

\* C12 witness: the room processed first is out of range and the room processed
\* after it is in range, so the in-range loop ran over the far room's
\* exhibits after they had been hidden; they are invisible.
C12_Witness ==
    /\ Evaluated
    /\ RoomIsFar(museumRooms[1], lastEvalCamera)
    /\ ~RoomIsFar(museumRooms[2], lastEvalCamera)
    /\ \E i \in 1..Len(domElements) :
          /\ RoomOf(domElements[i]) = museumRooms[1]
          /\ ~domElements[i].visible
    /\ \E i \in 1..Len(domElements) :
          /\ RoomOf(domElements[i]) = museumRooms[2]
          /\ domElements[i].visible

\* C14: whatever evaluations have been made, every exhibit has the position,
\* the rotation, the room index and the record it was placed with, and no
\* exhibit was added or removed.
C14_PlacementFrame ==
    /\ Len(domElements) = Len(InitialExhibits)
    /\ \A i \in 1..Len(domElements) :
          /\ domElements[i].position = InitialExhibits[i].position
          /\ domElements[i].rotation = InitialExhibits[i].rotation
          /\ domElements[i].userData.roomIndex
                 = InitialExhibits[i].userData.roomIndex
          /\ domElements[i].userData.domElement
                 = InitialExhibits[i].userData.domElement

\* C14 witness: evaluations have hidden one exhibit, replaced the material of
\* another and hidden parts of a third.
C14_Witness ==
    /\ Evaluated
    /\ \E i \in 1..Len(domElements) : ~domElements[i].visible
    /\ \E i \in 1..Len(domElements) : domElements[i].material = "simple"
    /\ \E i \in 1..Len(domElements) :
          \E k \in 1..Len(domElements[i].children) :
              ~domElements[i].children[k].visible

\* a step in which animate calls updateLevelOfDetail
IsCall == lodCounter' # lodCounter

\* C13: updateLevelOfDetail evaluates the tiers exactly on every tenth call
\* (the call that follows nine calls without an evaluation), and a call that
\* does not evaluate changes no exhibit.
C13_EveryTenthCall ==
    [][IsCall => /\ IsEvaluation <=> (sinceEval = LodPeriod - 1)
                 /\ ~IsEvaluation => domElements' = domElements]_vars

\* C13 witness: two evaluations have been made, exhibits were changed by
\* them, and nine calls without an evaluation have followed.
C13_Witness ==
    /\ repeatedEval
    /\ sinceEval = LodPeriod - 1
    /\ domElements # InitialExhibits

(***************************************************************************)
(* SpecLOD                                                                 *)
(***************************************************************************)
InitLOD ==
    /\ GrouperIdle /\ BudgetIdle /\ ScanIdle /\ OthersIdle
    /\ camera = StartPosition
    /\ domElements = InitialExhibits
    /\ lodCounter = Undefined
    /\ lastEvalCamera = Vec(0, 0, 0)
    /\ repeatedEval = FALSE
    /\ sinceEval = 0

\* the controls move the camera
MoveCamera ==
    /\ \E p \in CameraPositions \ {camera} : camera' = p
    /\ UNCHANGED <<domElements, lodCounter, lastEvalCamera, repeatedEval,
                   sinceEval, gvars, bvars, svars, hvars, vvars, kvars>>

\* animate calls updateLevelOfDetail()
UpdateLevelOfDetail ==
    LET counter == NextLodCounter(lodCounter)
    IN  /\ lodCounter' = counter
        /\ IF counter # 0
           THEN /\ sinceEval' = IF sinceEval < LodPeriod
                                THEN sinceEval + 1 ELSE sinceEval
                /\ UNCHANGED <<domElements, lastEvalCamera, repeatedEval>>
           ELSE /\ domElements' = processRooms(museumRooms, domElements, camera)
                /\ lastEvalCamera' = camera
                /\ repeatedEval' = (lastEvalCamera = camera)
                /\ sinceEval' = 0
        /\ UNCHANGED <<camera, gvars, bvars, svars, hvars, vvars, kvars>>

NextLOD == MoveCamera \/ UpdateLevelOfDetail

SpecLOD == InitLOD /\ [][NextLOD]_vars

(***************************************************************************)
(* The helpers of extractElementData as functions of their argument:      *)
(* classifyElement on one element and cleanTextContent on one text.        *)
(* Texts are sequences of characters.                                      *)
(***************************************************************************)
MaxClasses == 2    \* class names of a classified element
MaxPieces == 3     \* pieces a cleaned text is put together from

Upper == {"A", "B", "C", "D", "E", "F", "G", "H", "I", "J", "K", "L", "M",
          "N", "O", "P", "Q", "R", "S", "T", "U", "V", "W", "X", "Y", "Z"}
Letters ==
    Upper \cup {"a", "b", "c", "d", "e", "f", "g", "h", "i", "j", "k", "l", "m",
                "n", "o", "p", "q", "r", "s", "t", "u", "v", "w", "x", "y", "z"}
WordChars == Letters \cup DOMAIN DigitValue \cup {"_"}       \* \w
SpaceChars == {" ", "\t", "\n"}                   \* \s

AllIn(text, chars) == \A i \in DOMAIN text : text[i] \in chars
StartsAt(text, i, word) ==
    /\ i + Len(word) - 1 <= Len(text)
    /\ SubSeq(text, i, i + Len(word) - 1) = word
From(text, i) == SubSeq(text, i, Len(text))

\* /^[a-zA-Z0-9_-]{5,}$/.test(text) && !text.match(/\s/)
LooksGenerated(text) ==
    /\ Len(text) >= 5
    /\ AllIn(text, WordChars \cup {"-"})
    /\ ~ \E i \in DOMAIN text : text[i] \in SpaceChars

\* /^[a-zA-Z]{1,2}[0-9]{3,}$/
LooksLikeId(text) ==
    \E k \in 1..2 :
        /\ Len(text) >= k + 3
        /\ AllIn(SubSeq(text, 1, k), Letters)
        /\ AllIn(From(text, k + 1), DOMAIN DigitValue)

\* /^fe[A-Z][a-zA-Z]*$/
LooksLikeSvgFilter(text) ==
    /\ Len(text) >= 3
    /\ text[1] = "f" /\ text[2] = "e" /\ text[3] \in Upper
    /\ AllIn(From(text, 4), Letters)

LayoutWords ==
    { <<"c", "o", "n", "t", "a", "i", "n", "e", "r">>,
      <<"l", "a", "y", "o", "u", "t">>,
      <<"w", "r", "a", "p", "p", "e", "r">>,
      <<"i", "n", "n", "e", "r">>,
      <<"o", "u", "t", "e", "r">>,
      <<"m", "a", "i", "n">> }

\* /^(container|layout|wrapper|inner|outer|main)(-|\s)?[a-zA-Z0-9]*$/
LooksLikeLayout(text) ==
    \E word \in LayoutWords :
        /\ StartsAt(text, 1, word)
        /\ LET rest == From(text, Len(word) + 1)
           IN  \/ AllIn(rest, Letters \cup DOMAIN DigitValue)
               \/ /\ rest # <<>>
                  /\ rest[1] \in {"-"} \cup SpaceChars
                  /\ AllIn(Tail(rest), Letters \cup DOMAIN DigitValue)

TechnicalPrefixes ==
    { <<"j", "s", "-">>, <<"w", "b", "-">>, <<"c", "s", "s", "-">>,
      <<"s", "v", "g", "-">>, <<"a", "n", "i", "m", "-">>,
      <<"u", "i", "-">> }

\* the position after the run of \w characters that starts at i
WordRunEnd(text, i) ==
    CHOOSE j \in i..(Len(text) + 1) :
        /\ \A k \in i..(j - 1) : text[k] \in WordChars
        /\ j > Len(text) \/ text[j] \notin WordChars

\* the prefixes with which /\b(js-|wb-|css-|svg-|anim-|ui-)\w+\b/ matches at i
PrefixesAt(text, i) ==
    { prefix \in TechnicalPrefixes :
        /\ i = 1 \/ text[i - 1] \notin WordChars
        /\ StartsAt(text, i, prefix)
        /\ WordRunEnd(text, i + Len(prefix)) > i + Len(prefix) }

\* text.replace(/\b(js-|wb-|css-|svg-|anim-|ui-)\w+\b/g, ""), from i on
RECURSIVE RemoveTechnical(_, _)
RemoveTechnical(text, i) ==
    IF i > Len(text) THEN <<>>
    ELSE IF PrefixesAt(text, i) # {}
    THEN LET prefix == CHOOSE q \in PrefixesAt(text, i) : TRUE
         IN  RemoveTechnical(text, WordRunEnd(text, i + Len(prefix)))
    ELSE <<text[i]>> \o RemoveTechnical(text, i + 1)

\* text.replace(/\s+/g, " "), from i on
RECURSIVE CollapseSpaces(_, _)
CollapseSpaces(text, i) ==
    IF i > Len(text) THEN <<>>
    ELSE IF text[i] \notin SpaceChars
    THEN <<text[i]>> \o CollapseSpaces(text, i + 1)
    ELSE IF i > 1 /\ text[i - 1] \in SpaceChars
    THEN CollapseSpaces(text, i + 1)
    ELSE <<" ">> \o CollapseSpaces(text, i + 1)

RECURSIVE Trim(_)
Trim(text) ==
    IF text = <<>> THEN text
    ELSE IF text[1] \in SpaceChars THEN Trim(Tail(text))
    ELSE IF text[Len(text)] \in SpaceChars
    THEN Trim(SubSeq(text, 1, Len(text) - 1))
    ELSE text

cleanTextContent(text) ==
    IF text = <<>> THEN <<>>
    ELSE IF LooksGenerated(text) THEN <<>>
    ELSE IF LooksLikeId(text) THEN <<>>
    ELSE IF LooksLikeSvgFilter(text) THEN <<>>
    ELSE IF LooksLikeLayout(text) /\ Len(text) < 20 THEN <<>>
    ELSE LET cleaned == Trim(CollapseSpaces(RemoveTechnical(text, 1), 1))
         IN  IF Len(cleaned) < 3 THEN <<>> ELSE cleaned

\* the elements classifyElement is called on
ProbeElements ==
    LET tags == {"NAV", "H1", "H3", "H6", "H7", "HR", "HEADER", "UL", "OL",
                 "LI", "IMG", "BUTTON", "A", "INPUT", "TEXTAREA", "SELECT",
                 "FORM", "VIDEO", "AUDIO", "CANVAS", "DIV", "SECTION",
                 "ARTICLE", "P", "SPAN", "TABLE"}
        ids == { <<>>, <<"n", "a", "v">>,
                 <<"t", "o", "p", "n", "a", "v", "1">>,
                 <<"t", "o", "p", "N", "a", "v">>, <<"h", "e", "r", "o">> }
        classNames == { <<"b", "t", "n">>, <<"n", "a">>,
                        <<"v", "b", "a", "r">>,
                        <<"s", "u", "b", "n", "a", "v">> }
        classLists == UNION {[1..n -> classNames] : n \in 0..MaxClasses}
    IN  { [DomNode(tag, "block", "visible", "1", <<"a", "u", "t", "o">>,
                   300, 100, 0, NoUrl, NoUrl, FALSE)
              EXCEPT !.id = id, !.classList = classList,
                     !.inlineStyle = [backgroundImage |-> bg]] :
            tag \in tags, id \in ids, classList \in classLists,
            bg \in {NoUrl, Url("http", 1, HttpUrlLen)} }

RECURSIVE Concat(_)
Concat(pieces) ==
    IF pieces = <<>> THEN <<>> ELSE Head(pieces) \o Concat(Tail(pieces))

\* the texts cleanTextContent is called on: up to MaxPieces pieces in a row,
\* trimmed by the caller
ProbeTexts ==
    LET pieces == { <<"d", "-", "f", "l", "e", "x">>,
                    <<"j", "s", "-", "a", "b", "c", "1", "2", "3">>,
                    <<"C", "o", "n", "t", "a", "c", "t">>,
                    <<"U", "s">>,
                    <<" ">>, <<"\n">>, <<"-">>,
                    <<"u", "i", "-">>,
                    <<"m", "a", "i", "n">>,
                    <<"a", "1", "2", "3">>,
                    <<"f", "e", "B", "l", "u", "r">>,
                    <<"o", "k">> }
    IN  { Trim(Concat(row)) :
            row \in UNION {[1..n -> pieces] : n \in 0..MaxPieces} }

TextDFlexJs  == Concat(<< <<"d", "-", "f", "l", "e", "x">>, <<" ">>,
                          <<"j", "s", "-", "a", "b", "c", "1", "2", "3">> >>)
TextContactUs == Concat(<< <<"C", "o", "n", "t", "a", "c", "t">>, <<" ">>,
                           <<"U", "s">> >>)

\* the city view: createCityElements on one record; lengths are in tenths
baseHeight == 5     \* 0.5
\* variant: every shape has the base height
createElementShape_baseOnly(element) ==
    [userData |-> [domElement |-> element], height |-> baseHeight]

createElementShape(element) ==
    [userData |-> [domElement |-> element],
     height |-> (element.zIndex + 1) * baseHeight]

\* the records of elements with a computed z-index text and a box, as
\* extractElementData makes them
ProbeRecords ==
    LET zTexts == { <<"a", "u", "t", "o">>, <<"3">>, <<"0">>, <<"1", "2">>,
                    <<"-", "2">>, <<"i", "n", "h", "e", "r", "i", "t">> }
    IN  { [zIndex |-> extractZIndex([style |-> [zIndex |-> z]]),
           zText |-> z,
           dimensions |-> [width |-> w, height |-> h]] :
            z \in zTexts, w \in {8, 300}, h \in {8, 100} }

Placed == argument.kind = "record" /\ returned.kind = "shape"

\* C21: every shape of the city view has the height (zIndex + 1) * 0.5 of
\* its record: 2.0 for a z-index of 3 and 0.5 for an element without z-index
\* (heights are in tenths).
C21_HeightFromStackOrder ==
    Placed =>
        LET element == returned.userData.domElement
        IN  /\ element = argument.element
            /\ returned.height = (element.zIndex + 1) * 5
            /\ element.zText = <<"3">> => returned.height = 20
            /\ element.zText = <<"a", "u", "t", "o">> => returned.height = 5

\* C21 witness: an element with z-index 3 was placed, 2.0 high.
C21_Witness ==
    /\ Placed
    /\ argument.element.zText = <<"3">>
    /\ returned.height = 20

Classified == argument.kind = "element" /\ returned.kind = "type"
Cleaned == argument.kind = "text" /\ returned.kind = "text"

ElementTypes ==
    {"navigation", "header", "list", "image", "interactive", "form", "media",
     "container", "text", "other"}
RuleOrder ==
    <<"navigation", "header", "list", "image", "interactive", "form", "media",
      "container", "text", "other">>
NavigationSignal(e) ==
    \/ e.nodeName = "NAV"
    \/ Includes(e.id, <<"n", "a", "v">>)
    \/ \E c \in DOMAIN e.classList : Includes(e.classList[c], <<"n", "a", "v">>)
HeadingTag(e) == e.nodeName \in {"H1", "H2", "H3", "H4", "H5", "H6"}
RuleMatches(e, type) ==
    CASE type = "navigation"  -> NavigationSignal(e)
      [] type = "header"      -> HeadingTag(e)
      [] type = "list"        -> e.nodeName \in {"UL", "OL"}
      [] type = "image"       -> \/ e.nodeName = "IMG"
                                 \/ e.inlineStyle.backgroundImage # NoUrl
      [] type = "interactive" -> e.nodeName \in {"BUTTON", "A"}
      [] type = "form"        -> e.nodeName \in {"INPUT", "TEXTAREA", "SELECT",
                                                 "FORM"}
      [] type = "media"       -> e.nodeName \in {"VIDEO", "AUDIO", "CANVAS"}
      [] type = "container"   -> e.nodeName \in {"DIV", "SECTION", "ARTICLE"}
      [] type = "text"        -> e.nodeName \in {"P", "SPAN"}
      [] type = "other"       -> TRUE

\* C18: classifyElement returns, for every element, one type of the closed
\* set of ten, and it is the type of the first rule that matches in the order
\* navigation signal, heading tag, list tag, image, button/anchor, form
\* control, media, block container, inline text, other; a heading tag without
\* "nav" in its id and classes is classified header.
C18_FirstMatchingRule ==
    Classified =>
        LET e == argument.element
        IN  /\ returned.type \in ElementTypes
            /\ \E k \in DOMAIN RuleOrder :
                  /\ returned.type = RuleOrder[k]
                  /\ RuleMatches(e, RuleOrder[k])
                  /\ \A j \in 1..(k - 1) : ~RuleMatches(e, RuleOrder[j])
            /\ (HeadingTag(e) /\ ~NavigationSignal(e)) => returned.type = "header"

\* C18 witness: a heading whose id holds "nav" and that has an inline
\* background image was classified, and the earliest of the three rules won.
C18_Witness ==
    /\ Classified
    /\ argument.element.nodeName = "H3"
    /\ argument.element.id = <<"t", "o", "p", "n", "a", "v", "1">>
    /\ argument.element.inlineStyle.backgroundImage # NoUrl
    /\ returned.type = "navigation"

\* C20: cleanTextContent turns "d-flex js-abc123" into the empty text and
\* returns "Contact Us" as it is.
C20_CleaningScenario ==
    Cleaned =>
        /\ argument.text = TextDFlexJs => returned.text = <<>>
        /\ argument.text = TextContactUs => returned.text = TextContactUs

(***************************************************************************)
(* The room strategy: createMuseumExhibits on the section of one room.     *)
(* A placement is one exhibit added to the scene and pushed to             *)
(* domElements, named by its record and its wall.                          *)
(***************************************************************************)
MaxSectionArticles == 5    \* article records in the section of a room
MaxSectionStandard == 21   \* other records of one type in the section
maxExhibitsPerRoom == 20
maxArticlesPerRoom == 4

SectionRecord(r, tag, type, classes, hasArticle, w, h) == [ref |-> r, tagName |-> tag, type |-> type, classes |-> classes, articleData |-> hasArticle, dimensions |-> [width |-> w, height |-> h]]

\* section.childElements of nArt article records, nImg images, nText
\* paragraphs and nSmall boxes of 8 by 8, interleaved in document order
RoomSection(nArt, nImg, nText, nSmall) ==
    LET n == nArt + nImg + nText + nSmall
        arts   == [i \in 1..nArt |->
                     IF i % 2 = 1
                     THEN SectionRecord(i, "ARTICLE", "container", <<>>, TRUE, 300, 200)
                     ELSE SectionRecord(i, "DIV", "container", <<"post">>, FALSE, 300, 250)]
        imgs   == [i \in 1..nImg |->
                     SectionRecord(nArt + i, "IMG", "image", <<>>, FALSE, 40 + 10 * (i % 3), 40)]
        txts   == [i \in 1..nText |->
                     SectionRecord(nArt + nImg + i, "P", "text", <<>>, FALSE, 200, 20 + (i % 2))]
        smalls == [i \in 1..nSmall |->
                     SectionRecord(nArt + nImg + nText + i, "SPAN", "text", <<>>, FALSE, 8, 8)]
    IN  txts \o smalls \o arts \o imgs

typeImportance(type) ==
    CASE type = "image" -> 10 [] type = "header" -> 9
      [] type = "interactive" -> 8 [] type = "media" -> 7
      [] type = "form" -> 6 [] type = "navigation" -> 5
      [] type = "text" -> 4 [] type = "container" -> 3
      [] type = "other" -> 1 [] OTHER -> 0

\* the valid records, sorted (stably) by importance and then by size
sortExhibitsByImportance(elems) ==
    LET Before(a, b) ==
            IF typeImportance(a.type) # typeImportance(b.type)
            THEN typeImportance(a.type) > typeImportance(b.type)
            ELSE Area(a) > Area(b)
        RECURSIVE Insert(_, _)
        Insert(e, sorted) ==
            IF sorted = <<>> THEN <<e>>
            ELSE IF Before(e, Head(sorted)) THEN <<e>> \o sorted
            ELSE <<Head(sorted)>> \o Insert(e, Tail(sorted))
        RECURSIVE Sort(_)
        Sort(list) ==
            IF list = <<>> THEN <<>>
            ELSE Insert(list[Len(list)], Sort(SubSeq(list, 1, Len(list) - 1)))
    IN  Sort(SelectSeq(elems, LAMBDA e : e.dimensions.width > 10
                                         /\ e.dimensions.height > 10))

\* the first 2 of at most 4 articles on the north wall, the next 2 on the
\* south wall
placeArticleExhibits(articles) ==
    LET n == IF Len(articles) < maxArticlesPerRoom
             THEN Len(articles) ELSE maxArticlesPerRoom
    IN  [i \in 1..n |-> [element |-> articles[i].ref,
                         wall |-> IF i <= 2 THEN "north" ELSE "south",
                         article |-> TRUE]]

\* at most 20 exhibits, dealt to the four walls in turn and placed wall by wall
placeExhibitsOnWalls(exhibits) ==
    LET totalExhibits == IF Len(exhibits) < maxExhibitsPerRoom
                         THEN Len(exhibits) ELSE maxExhibitsPerRoom
        walls == <<"north", "east", "south", "west">>
        OnWall(w) ==
            LET idx == SelectSeq([i \in 1..totalExhibits |-> i],
                                 LAMBDA i : (i - 1) % 4 = w - 1)
            IN  [k \in 1..Len(idx) |-> [element |-> exhibits[idx[k]].ref,
                                        wall |-> walls[w],
                                        article |-> FALSE]]
    IN  OnWall(1) \o OnWall(2) \o OnWall(3) \o OnWall(4)

\* the placements made for one room, in the order they are pushed
createMuseumExhibits(section) ==
    LET exhibits == sortExhibitsByImportance(section.childElements)
        IsArticle(e) == \/ e.articleData
                        \/ e.tagName = "ARTICLE"
                        \/ \E k \in 1..Len(e.classes) :
                              e.classes[k] \in {"article", "post", "story"}
        articleElements == SelectSeq(exhibits, IsArticle)
        standardElements == SelectSeq(exhibits, LAMBDA e : ~IsArticle(e))
    IN  placeArticleExhibits(articleElements) \o placeExhibitsOnWalls(standardElements)

\* C27: under the room strategy the number of placements generated for one
\* room never exceeds the per-room cap of 20, for any section content,
\* sections that contain article records included.
C27_RoomCap ==
    returned.kind = "placements" => Len(returned.placements) <= maxExhibitsPerRoom

(***************************************************************************)
(* Specification SpecHelpers: one call of a helper on one argument.        *)
(***************************************************************************)
InitHelpers ==
    /\ GrouperIdle /\ BudgetIdle /\ ScanIdle /\ LODIdle
    /\ ViewerIdle /\ BackgroundIdle
    /\ argument \in {[kind |-> "element", element |-> e] : e \in ProbeElements}
                    \cup {[kind |-> "text", text |-> t] : t \in ProbeTexts}
                    \cup {[kind |-> "record", element |-> r] : r \in ProbeRecords}
                    \cup {[kind |-> "room",
                           section |-> [childElements |-> RoomSection(a, i, t, m)]] :
                            a \in 0..MaxSectionArticles, i \in {0, 2, 5},
                            t \in {0, 3, MaxSectionStandard - 6, MaxSectionStandard},
                            m \in 0..1}
    /\ returned = NoCall

\* extractElementData calls classifyElement(element)
ClassifyElement ==
    /\ argument.kind = "element"
    /\ returned = NoCall
    /\ returned' = [kind |-> "type", type |-> classifyElement(argument.element)]
    /\ UNCHANGED <<argument, gvars, bvars, svars, lvars, vvars, kvars>>

\* extractElementData calls cleanTextContent(textContent)
CleanTextContent ==
    /\ argument.kind = "text"
    /\ returned = NoCall
    /\ returned' = [kind |-> "text", text |-> cleanTextContent(argument.text)]
    /\ UNCHANGED <<argument, gvars, bvars, svars, lvars, vvars, kvars>>

\* createCityElements handles one record of domData.elements
CreateCityElements ==
    /\ argument.kind = "record"
    /\ returned = NoCall
    /\ returned' =
          IF \/ argument.element.dimensions.width < 10
             \/ argument.element.dimensions.height < 10
          THEN [kind |-> "skipped"]
          ELSE [kind |-> "shape"] @@ createElementShape(argument.element)
    /\ UNCHANGED <<argument, gvars, bvars, svars, lvars, vvars, kvars>>

\* createMuseumExhibits handles one room of window.museumRooms
CreateMuseumExhibits ==
    /\ argument.kind = "room"
    /\ returned = NoCall
    /\ returned' = [kind |-> "placements",
                    placements |-> createMuseumExhibits(argument.section)]
    /\ UNCHANGED <<argument, gvars, bvars, svars, lvars, vvars, kvars>>

NextHelpers ==
    ClassifyElement \/ CleanTextContent \/ CreateCityElements \/ CreateMuseumExhibits

SpecHelpers == InitHelpers /\ [][NextHelpers]_vars

(***************************************************************************)
(* The city view (viewer/core.js with viewer/elements.js): the pan and     *)
(* click listeners of the canvas, the input focus and the visibility       *)
(* checkboxes.  Intensities are in tenths, colours are hex texts.          *)
(***************************************************************************)
INPUT_FOCUS_INTENSITY == 8      \* 0.8
INPUT_FOCUS_COLOR == "00ffff"
DefaultIntensity == 10          \* emissiveIntensity of a new material: 1
DefaultEmissive == "000000"     \* emissive of a new material: black

\* domData.elements of the scanned page: two inputs, a paragraph and a <div>
\* of class "nav" without text; the records carry `classes', not `classList'
CityRecords ==
    << [tagName |-> "INPUT", textContent |-> "", classes |-> <<>>],
       [tagName |-> "TEXTAREA", textContent |-> "", classes |-> <<>>],
       [tagName |-> "P", textContent |-> "Hello", classes |-> <<>>],
       [tagName |-> "DIV", textContent |-> "", classes |-> <<"nav">>] >>

\* the mesh createElementShape makes for record i; a userData entry that is
\* not set is FALSE, Undefined or "undefined"
NewMesh(i) ==
    [visible |-> TRUE,
     material |-> [emissiveIntensity |-> DefaultIntensity,
                   emissive |-> DefaultEmissive],
     userData |-> [domElement |-> i,
                   inputFocused |-> FALSE,
                   originalEmissiveIntensity |-> Undefined,
                   originalEmissiveColor |-> "undefined"]]

\* what domElements holds: the entries createCityElements returns, or the
\* meshes themselves as the listeners of core.js read them
Scenes ==
    { [i \in DOMAIN CityRecords |->
          [object |-> i, domElement |-> i, detailLevel |-> "high"]],
      [i \in DOMAIN CityRecords |-> [mesh |-> i]] }
IsObject3D(el) == "mesh" \in DOMAIN el

\* el.classList && el.classList.contains(one of names)
ClassListContains(el, names) ==
    /\ "classList" \in DOMAIN el
    /\ \E c \in DOMAIN el.classList : el.classList[c] \in names

classifyDIV(el) ==
    LET hasText == el.textContent # ""
        hasContainerClass ==
            ClassListContains(el, {"container", "wrapper", "section"})
    IN  [isTextDiv |-> hasText /\ ~hasContainerClass,
         isContainerDiv |-> ~hasText \/ hasContainerClass]

\* controlMap[controlId](el)
controlMap(controlId, el) ==
    CASE controlId = "toggle-headers" ->
            el.tagName \in {"H1", "H2", "H3", "H4", "H5", "H6"}
      [] controlId = "toggle-images" -> el.tagName = "IMG"
      [] controlId = "toggle-text" ->
            IF el.tagName = "DIV" THEN classifyDIV(el).isTextDiv
            ELSE el.tagName \in {"P", "SPAN"}
      [] controlId = "toggle-links" -> el.tagName = "A"
      [] controlId = "toggle-buttons" -> el.tagName = "BUTTON"
      [] controlId = "toggle-forms" ->
            el.tagName \in {"INPUT", "TEXTAREA", "SELECT"}
      [] controlId = "toggle-containers" ->
            IF el.tagName = "DIV" THEN classifyDIV(el).isContainerDiv
            ELSE el.tagName \in {"SECTION", "ARTICLE"}
      [] controlId = "toggle-navigation" ->
            \/ el.tagName = "NAV"
            \/ ClassListContains(el, {"nav", "navigation", "navbar", "menu"})
      [] controlId = "toggle-other" ->
            el.tagName \notin {"H1", "H2", "H3", "H4", "H5", "H6", "IMG", "P",
                               "SPAN", "A", "BUTTON", "INPUT", "TEXTAREA",
                               "SELECT", "DIV", "SECTION", "ARTICLE", "NAV"}

\* the meshes after updateElementVisibility(controlId, visible, filter);
\* element3D.userData?.domElement is undefined for an entry that is no mesh
updateElementVisibility(list, ms, controlId, visible) ==
    [i \in DOMAIN ms |->
        IF \E k \in DOMAIN list :
              /\ IsObject3D(list[k]) /\ list[k].mesh = i
              /\ controlMap(controlId, CityRecords[ms[i].userData.domElement])
        THEN [ms[i] EXCEPT !.visible = visible]
        ELSE ms[i]]

applyInputFocus(ms, i) ==
    [ms EXCEPT ![i] =
        [@ EXCEPT !.userData.inputFocused = TRUE,
                  !.userData.originalEmissiveIntensity =
                      ms[i].material.emissiveIntensity,
                  !.userData.originalEmissiveColor = ms[i].material.emissive,
                  !.material.emissiveIntensity = INPUT_FOCUS_INTENSITY,
                  !.material.emissive = INPUT_FOCUS_COLOR]]

clearInputFocus(ms, i) ==
    IF ~ms[i].userData.inputFocused THEN ms
    ELSE [ms EXCEPT ![i] =
        [@ EXCEPT !.material.emissiveIntensity =
                      IF ms[i].userData.originalEmissiveIntensity = Undefined
                      THEN 0 ELSE ms[i].userData.originalEmissiveIntensity,
                  !.material.emissive =
                      IF ms[i].userData.originalEmissiveColor = "undefined"
                      THEN "000000" ELSE ms[i].userData.originalEmissiveColor,
                  !.userData.inputFocused = FALSE,
                  !.userData.originalEmissiveIntensity = Undefined,
                  !.userData.originalEmissiveColor = "undefined"]]

\* handleInputClick(element): the meshes and focusedInput afterwards
handleInputClick(ms, focused, i) ==
    [meshes |-> applyInputFocus(IF focused # 0 /\ focused # i
                                THEN clearInputFocus(ms, focused) ELSE ms, i),
     focusedInput |-> i]

\* handleElementClick(object) for the mesh of record i
handleElementClick(ms, focused, i) ==
    IF CityRecords[ms[i].userData.domElement].tagName \in {"INPUT", "TEXTAREA"}
    THEN handleInputClick(ms, focused, i)
    ELSE [meshes |-> ms, focusedInput |-> focused]

ControlIds ==
    {"toggle-text", "toggle-forms", "toggle-containers", "toggle-navigation"}
AllControlIds ==
    ControlIds \cup {"toggle-headers", "toggle-images", "toggle-links",
                     "toggle-buttons", "toggle-other"}

\* C22: a click that ends a gesture in which the mouse moved is not handled
\* as a click on an element, and a click on a visible element without a mouse
\* move in its gesture is.
C22_DragIsNotClick ==
    lastClick # NoCall =>
        /\ lastClick.moved => lastClick.outcome # "handled"
        /\ (~lastClick.moved /\ lastClick.over # 0
                /\ meshes[lastClick.over].visible)
           => lastClick.outcome = "handled"

C24_VisibleFollowsCheckbox ==
    lastToggle.control # "none" =>
        \A i \in DOMAIN meshes :
            controlMap(lastToggle.control, CityRecords[i])
                => meshes[i].visible = lastToggle.checked[lastToggle.control]

(***************************************************************************)
(* Specification SpecViewer: mouse gestures and checkbox changes.          *)
(***************************************************************************)
InitViewer ==
    /\ GrouperIdle /\ BudgetIdle /\ ScanIdle /\ LODIdle
    /\ HelpersIdle /\ BackgroundIdle
    /\ isDragging = FALSE
    /\ hasDragged = FALSE
    /\ gesture = NoCall
    /\ clickPending = NoCall
    /\ lastClick = NoCall
    /\ focusedInput = 0
    /\ cityElements \in Scenes
    \* setupVisibilityControls has hidden the text and the other elements
    /\ meshes = updateElementVisibility(cityElements,
                    updateElementVisibility(cityElements,
                        [i \in DOMAIN CityRecords |-> NewMesh(i)],
                        "toggle-text", FALSE),
                    "toggle-other", FALSE)
    /\ lastToggle =
          [control |-> "none",
           checked |-> [c \in AllControlIds |->
                           c \notin {"toggle-text", "toggle-other"}]]

\* mousedown on the canvas, over the mesh of record `over' (0: over none)
MouseDown ==
    /\ ~isDragging
    /\ clickPending = NoCall
    /\ \E over \in {0} \cup DOMAIN meshes :
          gesture' = [moved |-> FALSE, over |-> over]
    /\ isDragging' = TRUE
    /\ hasDragged' = FALSE
    /\ UNCHANGED <<clickPending, lastClick, focusedInput, meshes, cityElements,
                   lastToggle, gvars, bvars, svars, lvars, hvars, kvars>>

\* mousemove on the canvas while the button is down (the pan listener)
MouseMove ==
    /\ isDragging
    /\ hasDragged' = TRUE
    /\ gesture' = [gesture EXCEPT !.moved = TRUE]
    /\ UNCHANGED <<isDragging, clickPending, lastClick, focusedInput, meshes,
                   cityElements, lastToggle,
                   gvars, bvars, svars, lvars, hvars, kvars>>

\* mouseup on the window; released over the canvas, the browser then
\* delivers the click of the gesture
MouseUp ==
    /\ isDragging
    /\ isDragging' = FALSE
    /\ hasDragged' = FALSE
    /\ \E onCanvas \in BOOLEAN :
          clickPending' = IF onCanvas THEN gesture ELSE NoCall
    /\ gesture' = NoCall
    /\ UNCHANGED <<lastClick, focusedInput, meshes, cityElements, lastToggle,
                   gvars, bvars, svars, lvars, hvars, kvars>>

\* the click listener of the canvas
Click ==
    /\ clickPending # NoCall
    /\ clickPending' = NoCall
    /\ LET validElements ==
               { i \in DOMAIN meshes :
                   \E k \in DOMAIN cityElements :
                       /\ IsObject3D(cityElements[k])
                       /\ cityElements[k].mesh = i
                       /\ meshes[i].visible }
           after == handleElementClick(meshes, focusedInput, clickPending.over)
       IN  IF hasDragged
           THEN /\ lastClick' = [outcome |-> "ignored"] @@ clickPending
                /\ UNCHANGED <<meshes, focusedInput>>
           ELSE IF clickPending.over \notin validElements
           THEN /\ lastClick' = [outcome |-> "missed"] @@ clickPending
                /\ UNCHANGED <<meshes, focusedInput>>
           ELSE /\ lastClick' = [outcome |-> "handled"] @@ clickPending
                /\ meshes' = after.meshes
                /\ focusedInput' = after.focusedInput
    /\ UNCHANGED <<isDragging, hasDragged, gesture, cityElements, lastToggle,
                   gvars, bvars, svars, lvars, hvars, kvars>>

\* the change listener of a checkbox
ChangeCheckbox ==
    /\ clickPending = NoCall
    /\ \E controlId \in ControlIds :
          LET visible == ~lastToggle.checked[controlId]
          IN  /\ lastToggle' = [control |-> controlId,
                                checked |-> [lastToggle.checked
                                               EXCEPT ![controlId] = visible]]
              /\ meshes' = updateElementVisibility(cityElements, meshes,
                                                   controlId, visible)
    /\ UNCHANGED <<isDragging, hasDragged, gesture, clickPending, lastClick,
                   focusedInput, cityElements,
                   gvars, bvars, svars, lvars, hvars, kvars>>

NextViewer == MouseDown \/ MouseMove \/ MouseUp \/ Click \/ ChangeCheckbox

SpecViewer == InitViewer /\ [][NextViewer]_vars

(***************************************************************************)
(* The background script (background.js) with the content scripts and the  *)
(* viewer pages it talks to.  Page tabs are 1..NTabs; viewer tabs are      *)
(* numbered in the order of their creation; 0 is null.                     *)
(***************************************************************************)
NTabs == 2         \* page tabs
MaxClicks == 2     \* clicks on the extension icon in one run

\* something still to run: a callback, a promise or a message in flight
Task(kind, tab, viewer, data) ==
    [kind |-> kind, tab |-> tab, viewer |-> viewer, data |-> data]

\* a viewer tab: the page tab of the click it was created for (0 when made
\* by open3DViewer), whether its page has registered its listener, and what
\* the page shows
Viewer(click) ==
    [click |-> click, open |-> TRUE, listening |-> FALSE,
     status |-> "loading", data |-> 0]

\* notifyViewerOfError: the scanError message, when a viewer tab is tracked
notifyViewerOfError(viewerTab) ==
    IF viewerTab # 0 THEN {Task("scanError", 0, viewerTab, 0)} ELSE {}

\* open3DViewer: the new viewer tab and the callback of tabs.create
open3DViewer(vs) == Task("opened", 0, Len(vs) + 1, 0)

\* nothing is left to run and every open viewer page has loaded
Settled ==
    /\ tasks = {}
    /\ \A v \in DOMAIN viewers : viewers[v].open => viewers[v].listening

\* C25: once everything has run, no open viewer tab that was created for a
\* click is still loading: it shows an error, or the data scanned from the
\* tab of its click.
C25_ViewerLeavesLoading ==
    Settled =>
        \A v \in DOMAIN viewers :
            (viewers[v].open /\ viewers[v].click # 0) =>
                \/ viewers[v].status = "error"
                \/ /\ viewers[v].status = "ready"
                   /\ viewers[v].data = viewers[v].click

\* C30: once everything has run, no open tab shows the scanning icon.
C30_IconRestored ==
    Settled => \A t \in openTabs : icon[t] = "normal"

(***************************************************************************)
(* Specification SpecBackground: icon clicks, the callbacks and messages   *)
(* they start, page loads of the viewer and tab closures.                  *)
(***************************************************************************)
InitBackground ==
    /\ GrouperIdle /\ BudgetIdle /\ ScanIdle /\ LODIdle
    /\ HelpersIdle /\ ViewerIdle
    /\ currentDomData = 0
    /\ contentScriptActive = {}
    /\ viewerTabId = 0
    /\ scanningTabId = 0
    /\ icon = [t \in 1..NTabs |-> "normal"]
    /\ openTabs = 1..NTabs
    /\ viewers = <<>>
    /\ tasks = {}
    /\ clicks = 0

\* chrome.action.onClicked on page tab t, up to the call of tabs.create
IconClicked ==
    /\ clicks < MaxClicks
    /\ \E t \in openTabs :
          /\ scanningTabId' = t
          /\ icon' = [icon EXCEPT ![t] = "scanning"]
          /\ viewers' = Append(viewers, Viewer(t))
          /\ tasks' = tasks \cup {Task("created", t, Len(viewers) + 1, 0)}
    /\ clicks' = clicks + 1
    /\ UNCHANGED <<currentDomData, contentScriptActive, viewerTabId, openTabs,
                   gvars, bvars, svars, lvars, hvars, vvars>>

\* the callback of tabs.create in the click listener
TabCreated ==
    \E task \in tasks :
        /\ task.kind = "created"
        /\ viewerTabId' = task.viewer
        /\ tasks' = (tasks \ {task}) \cup
              {IF task.tab \in contentScriptActive
               THEN Task("scanDOM", task.tab, 0, 0)
               ELSE Task("inject", task.tab, 0, 0)}
        /\ UNCHANGED <<currentDomData, contentScriptActive, scanningTabId, icon,
                       openTabs, viewers, clicks,
                       gvars, bvars, svars, lvars, hvars, vvars>>

\* scripting.executeScript settles: then, or catch
InjectSettled ==
    \E task \in tasks, injected \in BOOLEAN :
        /\ task.kind = "inject"
        /\ injected => task.tab \in openTabs
        /\ IF injected
           THEN /\ contentScriptActive' = contentScriptActive \cup {task.tab}
                /\ tasks' = (tasks \ {task})
                               \cup {Task("scanDOM", task.tab, 0, 0)}
                /\ UNCHANGED icon
           ELSE /\ icon' = [icon EXCEPT ![task.tab] = "normal"]
                /\ tasks' = (tasks \ {task})
                               \cup notifyViewerOfError(viewerTabId)
                /\ UNCHANGED contentScriptActive
        /\ UNCHANGED <<currentDomData, viewerTabId, scanningTabId, openTabs,
                       viewers, clicks,
                       gvars, bvars, svars, lvars, hvars, vvars>>

\* the callback of tabs.sendMessage(tab, scanDOM): the content script has
\* answered and scans, or runtime.lastError is set
ScanRequested ==
    \E task \in tasks, answered \in BOOLEAN :
        /\ task.kind = "scanDOM"
        /\ answered => task.tab \in openTabs
        /\ tasks' = (tasks \ {task}) \cup
              (IF answered THEN {Task("scan", task.tab, 0, 0)}
               ELSE notifyViewerOfError(viewerTabId))
        /\ UNCHANGED <<currentDomData, contentScriptActive, viewerTabId,
                       scanningTabId, icon, openTabs, viewers, clicks,
                       gvars, bvars, svars, lvars, hvars, vvars>>

\* runtime.onMessage with domScanComplete from the content script of a tab
ScanComplete ==
    \E task \in tasks :
        /\ task.kind = "scan"
        /\ currentDomData' = task.tab
        /\ IF scanningTabId # 0
           THEN /\ icon' = [icon EXCEPT ![scanningTabId] = "normal"]
                /\ scanningTabId' = 0
           ELSE UNCHANGED <<icon, scanningTabId>>
        /\ IF viewerTabId # 0
           THEN /\ tasks' = (tasks \ {task}) \cup
                       {Task("domDataReady", 0, viewerTabId, task.tab)}
                /\ UNCHANGED viewers
           ELSE /\ tasks' = (tasks \ {task}) \cup {open3DViewer(viewers)}
                /\ viewers' = Append(viewers, Viewer(0))
        /\ UNCHANGED <<contentScriptActive, viewerTabId, openTabs, clicks,
                       gvars, bvars, svars, lvars, hvars, vvars>>

\* the domDataReady message reaches the listener of the viewer page, or the
\* callback of tabs.sendMessage finds runtime.lastError
DomDataSent ==
    \E task \in tasks :
        /\ task.kind = "domDataReady"
        /\ IF viewers[task.viewer].open /\ viewers[task.viewer].listening
           THEN /\ viewers' = [viewers EXCEPT ![task.viewer].status = "ready",
                                              ![task.viewer].data = task.data]
                /\ tasks' = tasks \ {task}
                /\ UNCHANGED viewerTabId
           ELSE /\ viewerTabId' = 0
                /\ tasks' = (tasks \ {task}) \cup {open3DViewer(viewers)}
                /\ viewers' = Append(viewers, Viewer(0))
        /\ UNCHANGED <<currentDomData, contentScriptActive, scanningTabId, icon,
                       openTabs, clicks,
                       gvars, bvars, svars, lvars, hvars, vvars>>

\* the scanError message reaches the listener of the viewer page, or is lost
ScanErrorSent ==
    \E task \in tasks :
        /\ task.kind = "scanError"
        /\ tasks' = tasks \ {task}
        /\ viewers' =
              IF viewers[task.viewer].open /\ viewers[task.viewer].listening
              THEN [viewers EXCEPT ![task.viewer].status = "error"]
              ELSE viewers
        /\ UNCHANGED <<currentDomData, contentScriptActive, viewerTabId,
                       scanningTabId, icon, openTabs, clicks,
                       gvars, bvars, svars, lvars, hvars, vvars>>

\* the callback of tabs.create in open3DViewer
ViewerOpened ==
    \E task \in tasks :
        /\ task.kind = "opened"
        /\ viewerTabId' = task.viewer
        /\ tasks' = tasks \ {task}
        /\ UNCHANGED <<currentDomData, contentScriptActive, scanningTabId, icon,
                       openTabs, viewers, clicks,
                       gvars, bvars, svars, lvars, hvars, vvars>>

\* DOMContentLoaded in a viewer page: the listener is registered, and a page
\* opened without loading=true requests the data
ViewerLoaded ==
    \E v \in DOMAIN viewers :
        /\ viewers[v].open /\ ~viewers[v].listening
        /\ viewers' = [viewers EXCEPT ![v].listening = TRUE]
        /\ tasks' = tasks \cup (IF viewers[v].click = 0
                                THEN {Task("requestDOMData", 0, v, 0)} ELSE {})
        /\ UNCHANGED <<currentDomData, contentScriptActive, viewerTabId,
                       scanningTabId, icon, openTabs, clicks,
                       gvars, bvars, svars, lvars, hvars, vvars>>

\* runtime.onMessage with requestDOMData, and the response in the viewer
DataRequested ==
    \E task \in tasks :
        /\ task.kind = "requestDOMData"
        /\ viewers[task.viewer].open
        /\ viewerTabId' = task.viewer
        /\ viewers' =
              IF currentDomData # 0
              THEN [viewers EXCEPT ![task.viewer].status = "ready",
                                   ![task.viewer].data = currentDomData]
              ELSE [viewers EXCEPT ![task.viewer].status = "error"]
        /\ tasks' = tasks \ {task}
        /\ UNCHANGED <<currentDomData, contentScriptActive, scanningTabId, icon,
                       openTabs, clicks,
                       gvars, bvars, svars, lvars, hvars, vvars>>

\* tabs.onRemoved for a page tab (its content script goes with it) or for a
\* viewer tab (its request goes with it)
TabClosed ==
    /\ \/ \E t \in openTabs :
          /\ openTabs' = openTabs \ {t}
          /\ contentScriptActive' = contentScriptActive \ {t}
          /\ scanningTabId' = IF t = scanningTabId THEN 0 ELSE scanningTabId
          /\ tasks' = {task \in tasks : ~(task.kind = "scan" /\ task.tab = t)}
          /\ UNCHANGED <<currentDomData, viewerTabId, viewers>>
       \/ \E v \in DOMAIN viewers :
          /\ viewers[v].open
          /\ \A task \in tasks : ~(task.kind \in {"created", "opened"}
                                     /\ task.viewer = v)
          /\ viewers' = [viewers EXCEPT ![v].open = FALSE]
          /\ currentDomData' = IF v = viewerTabId THEN 0 ELSE currentDomData
          /\ viewerTabId' = IF v = viewerTabId THEN 0 ELSE viewerTabId
          /\ tasks' = {task \in tasks :
                          ~(task.kind = "requestDOMData" /\ task.viewer = v)}
          /\ UNCHANGED <<openTabs, contentScriptActive, scanningTabId>>
    /\ UNCHANGED <<icon, clicks, gvars, bvars, svars, lvars, hvars, vvars>>

NextBackground ==
    \/ IconClicked \/ TabCreated \/ InjectSettled \/ ScanRequested
    \/ ScanComplete \/ DomDataSent \/ ScanErrorSent \/ ViewerOpened
    \/ ViewerLoaded \/ DataRequested \/ TabClosed

SpecBackground == InitBackground /\ [][NextBackground]_vars
====
